---- MODULE Spec2Model ----
(***************************************************************************)
(* Model of the Proton bootstrap framework (rbxts-proton).                 *)
(*                                                                         *)
(* Part 1: the init-barrier orchestrator of src/src/index.ts: the provider *)
(* registry filled by the Provider() decorator, Proton.start() with its    *)
(* two phases, Proton.awaitStart() and Proton.get().                       *)
(*                                                                         *)
(* Part 2: the Lifecycle class of src/src/lifecycle.ts: its callback list, *)
(* its observer lists and fire() in Series and Concurrent mode.            *)
(*                                                                         *)
(* Scheduling is the Luau task scheduler: one thread runs at a time and    *)
(* keeps running until it yields or ends; task.spawn(f) runs f at once,    *)
(* nested in the spawner, until f yields or ends.  Every action below is   *)
(* one such uninterrupted run: from a call (or a resumption) to the next   *)
(* yield or return, nested units included.                                 *)
(***************************************************************************)
EXTENDS Naturals, Integers, Sequences, FiniteSets, TLC

\* ------------------------------------------------------------------ bounds
\* Threads of the embedding application that call the public API.
MaxThreads == 2
\* Provider instances constructed in one run (applications of Provider()).
MaxInst == 2
Threads == 1..MaxThreads

\* ------------------------------------------------------- provider classes
\* The classes the decorator may be applied to, with the optional lifecycle
\* methods each one implements.
Classes == {"A", "B", "C", "D"}

\* "protonInit" in p
HasInit(c) == c \in {"A", "B"}

\* "protonStart" in p
HasStart(c) == c \in {"A", "C"}

\* What a provider's constructor may do when the decorator runs it.
CtorBehaviors == {"return", "yield", "error"}

\* What a protonInit unit may do: return without yielding, yield and return
\* when resumed, raise an error (before or after a yield: either way the unit
\* never reaches line 303), or yield and never be resumed.
InitBehaviors == {"return", "yield", "error", "hang", "await"}

\* What a protonStart unit may do: return, yield and never come back (a loop
\* that runs forever), raise an error, or call Proton.awaitStart() and return
\* once that call returns.
StartBehaviors == {"return", "hang", "error", "await"}

None == 0

\* The thread task.spawn creates for the protonStart unit of class c (line
\* 320); application threads are 1..MaxThreads.
StartUnitThread(c) == CASE c = "A" -> 0 - 1 [] c = "B" -> 0 - 2 [] c = "C" -> 0 - 3 [] OTHER -> 0 - 4

StartUnitThreads == {StartUnitThread(c) : c \in Classes}

ClassOfThread(x) == CHOOSE c \in Classes : StartUnitThread(c) = x

\* The thread task.spawn creates for the protonInit unit of class c (line 299).
InitUnitThread(c) == StartUnitThread(c) - 4

InitUnitThreads == {InitUnitThread(c) : c \in Classes}

ClassOfInitThread(x) == CHOOSE c \in Classes : InitUnitThread(c) = x

VARIABLES
    providerClasses,    \* Map<class, instance>: a function on the registered classes
    starting,           \* index.ts:5
    started,            \* index.ts:6
    awaitStartThreads,  \* index.ts:7, the threads parked in awaitStart()
    thread,             \* start()'s local `thread` (coroutine.running()), None before
    numInitProviders,   \* start()'s local counter
    completedInit,      \* start()'s local counter
    nextInst,           \* number of provider instances constructed so far
    pc,                 \* where each application thread is suspended
    ctorArg,            \* the decorator call a thread is inside of, while its constructor is suspended
    initUnit,           \* per class: the state of its protonInit unit
    initCount,          \* per class: how often protonInit was invoked
    startCount,         \* per class: how often protonStart was invoked
    startUnit,          \* per class: the state of its protonStart unit
    startSaw,           \* per class: the state its protonStart unit found when it began
    decorated,          \* per class: the instance the decorator stored last (None: never)
    event               \* what the latest step was: the API call made or the unit resumed

\* A Lifecycle object (lifecycle.ts:23-127).
VARIABLES
    behavior,                   \* the mode the constructor chose `fire` for (lines 32-41)
    callbacks,                  \* lifecycle.ts:24
    onRegisteredCallbacks,      \* lifecycle.ts:25
    onUnregisteredCallbacks,    \* lifecycle.ts:26
    registered,                 \* the callbacks now registered, in the order they were registered
    closures,                   \* the closures onRegistered() / onUnregistered() returned, in order
    fired                       \* the latest Lifecycle call: what it invoked and notified

\* Proton.onStart, in the version of the orchestrator that has it
\* (part_000:50-52, part_001:3-5); that version's `started`,
\* `awaitStartThreads` and threads are the variables of those names above.
VARIABLES
    awaitCallbacks,     \* part_000:52
    passed,             \* per callback: how often it was passed to onStart()
    invoked             \* per callback: how often it was invoked

onStartVars == <<awaitCallbacks, passed, invoked>>

\* The lifecycle-based orchestrator (core.ts): its `started`,
\* `awaitStartThreads` and threads are the variables of those names above,
\* and ProtonStart (core.ts:8) is the Lifecycle object above.
VARIABLES
    fireCount           \* how often ProtonStart.fire() was called

coreVars == <<fireCount>>

\* An Attributes object for one attribute key of its instance
\* (attributes.ts:20-147).
VARIABLES
    signalBehavior,     \* how the engine runs signal connections: at once or deferred
    attr,               \* attributes.ts:27, the cached value of the key
    instAttr,           \* the value the instance holds for the key
    onChangedCallbacks, \* attributes.ts:30, the handlers of the key
    deferred,           \* runs of the connection of line 44 that are due, by origin
    attrLog,            \* the handlers the latest step spawned, with their arguments
    attrEvent           \* what the latest step was

attributesVars == <<signalBehavior, attr, instAttr, onChangedCallbacks, deferred,
                    attrLog, attrEvent>>

\* A ComponentRunner (src/unnamed/part_004:65-197) and the instances it
\* serves.
VARIABLES
    configTag,          \* config.tag !== undefined
    configFilter,       \* a whitelist of descendants is configured
    position,           \* per instance: inside the whitelist, outside it, or without parent
    tagged,             \* per instance: the tag signal delivered last was InstanceAdded
    addQueue,           \* part_004:70, the instances whose deferred add is due
    compInstances,      \* part_004:66, instance -> its component object
    comps,              \* the component objects constructed so far, with their compItem
    compLog,            \* the onStart / onStop calls the latest step spawned
    compEvent           \* what the latest step was

componentVars == <<configTag, configFilter, position, tagged, addQueue, compInstances,
                   comps, compLog, compEvent>>

restVars == <<onStartVars, coreVars, attributesVars, componentVars>>

protonVars == <<providerClasses, starting, started, awaitStartThreads, thread,
                numInitProviders, completedInit, nextInst, pc, ctorArg, initUnit,
                initCount, startCount, startUnit, startSaw, decorated, event>>

lifecycleVars == <<behavior, callbacks, onRegisteredCallbacks, onUnregisteredCallbacks,
                   registered, closures, fired>>

vars == <<providerClasses, starting, started, awaitStartThreads, thread,
          numInitProviders, completedInit, nextInst, pc, ctorArg, initUnit,
          initCount, startCount, startUnit, startSaw, decorated, event,
          behavior, callbacks, onRegisteredCallbacks, onUnregisteredCallbacks,
          registered, closures, fired, restVars>>

Event(t, o, c, out, i) == [t |-> t, op |-> o, cls |-> c, out |-> out, inst |-> i]

\* The mode of a Lifecycle (lifecycle.ts:6-18).
LifecycleBehavior == {"Series", "Concurrent"}

\* A Lifecycle call as it runs: the callback list (and the registrations in
\* their order), the callbacks it invoked so far and what each did, the
\* observer calls it made so far, the observers that already acted in it,
\* and how it ends.
Run(cbs, reg) ==
    [callbacks |-> cbs, registered |-> reg, invoked |-> << >>, did |-> << >>,
     notified |-> << >>, acted |-> {}, out |-> "returned"]

\* What the latest Lifecycle call did: the call and its argument, how it
\* ended, the callbacks it invoked with what each of them did, the observer
\* calls it made, in order, and the observers that called back into the
\* Lifecycle.
Fired(o, a, s) ==
    [op |-> o, arg |-> a, out |-> s.out, invoked |-> s.invoked, did |-> s.did,
     notified |-> s.notified, acted |-> s.acted]

\* new Lifecycle(b): lines 24-26 and 32-41.
LifecycleNew(b) ==
    /\ behavior = b
    /\ callbacks = << >>
    /\ onRegisteredCallbacks = << >>
    /\ onUnregisteredCallbacks = << >>
    /\ registered = << >>
    /\ closures = << >>
    /\ fired = Fired("none", "none", [Run(<< >>, << >>) EXCEPT !.out = "none"])

\* The functions the application passes to Proton.onStart().
OnStartCallbacks == {"f", "g"}

\* part_000:50-52.
OnStartInit ==
    /\ awaitCallbacks = << >>
    /\ passed = [cb \in OnStartCallbacks |-> 0]
    /\ invoked = [cb \in OnStartCallbacks |-> 0]

CoreInit == fireCount = 0

\* The instances tags and components are added to.
Instances == {"i1", "i2"}

\* part_004:65-87: a runner just constructed, no instance carrying the tag.
ComponentRunnerNew(tag, filter) ==
    /\ configTag = tag
    /\ configFilter = filter
    /\ position = [i \in Instances |-> "out"]
    /\ tagged = [i \in Instances |-> FALSE]
    /\ addQueue = {}
    /\ compInstances = << >>
    /\ comps = << >>
    /\ compLog = << >>
    /\ compEvent = [op |-> "none", inst |-> "none", out |-> "none"]

\* attributes.ts:32-50: after the constructor the cache and the instance hold
\* the same value (the bound one, line 39, or the default, lines 41-42).
AttributesNew(mode) ==
    /\ signalBehavior = mode
    /\ attr = 0
    /\ instAttr = 0
    /\ onChangedCallbacks = << >>
    /\ deferred = << >>
    /\ attrLog = << >>
    /\ attrEvent = [op |-> "none", value |-> 0]

RestInit == OnStartInit /\ CoreInit

OrchestratorInit ==
    /\ providerClasses = << >>
    /\ starting = FALSE
    /\ started = FALSE
    /\ awaitStartThreads = << >>
    /\ thread = None
    /\ numInitProviders = 0
    /\ completedInit = 0
    /\ nextInst = 0
    /\ pc = [t \in Threads |-> "idle"]
    /\ ctorArg = [t \in Threads |-> [cls |-> "none", inst |-> None]]
    /\ initUnit = [c \in Classes |-> "none"]
    /\ initCount = [c \in Classes |-> 0]
    /\ startCount = [c \in Classes |-> 0]
    /\ startUnit = [c \in Classes |-> "none"]
    /\ startSaw = [c \in Classes |-> "none"]
    /\ decorated = [c \in Classes |-> None]
    /\ event = Event(None, "none", "none", "none", None)
    /\ RestInit

\* The orchestrator before any call, with a Lifecycle constructed in the
\* default mode (line 32).
Init ==
    /\ OrchestratorInit
    /\ LifecycleNew("Concurrent")
    /\ AttributesNew("Immediate")
    /\ ComponentRunnerNew(TRUE, TRUE)

\* ------------------------------------------------------------------ helpers
MapSetIfAbsent(m, k, v) == [x \in (DOMAIN m) \cup {k} |-> IF x \in DOMAIN m THEN m[x] ELSE v]

\* Map.set(k, v)
MapSet(m, k, v) == [x \in (DOMAIN m) \cup {k} |-> IF x = k THEN v ELSE m[x]]

\* The orders in which a for..of loop may visit the keys of a Map.
Orders(S) == {s \in [1..Cardinality(S) -> S] : \A i, j \in DOMAIN s : i # j => s[i] # s[j]}

\* coroutine.status(t) as seen from a unit the scheduler resumed: every
\* application thread that is not running is parked at a yield.
CoStatus(t) == IF t \in Threads THEN "suspended" ELSE "dead"

\* Thread t may make a new API call: it is not suspended inside one.  The
\* application's threads differ in nothing but the call they are suspended
\* in, so a new call is made by the first thread that is free.
CanCall(t) == pc[t] = "idle" /\ \A u \in Threads : u < t => pc[u] # "idle"

\* An API call by thread t: operation, class argument, how the call ended
\* ("pending": the caller is suspended inside it) and the instance involved.
Call(t, o, c, out, i) == event' = Event(t, o, c, out, i)

\* ------------------------------------------------- Provider() (index.ts:31-38)
ProviderGuardNoStarting(s, st) == st

\* Line 33: the decorator refuses once start() has been entered.
ProviderGuard(s, st) == s \/ st

\* The decorator applied by thread t to class c.  `new providerClass()` runs
\* after the check and before Map.set; it may yield, and then the insertion
\* happens when the constructor is resumed (CtorResume).
Provider(t, c) ==
    /\ CanCall(t)
    /\ IF ProviderGuard(starting, started)
       THEN /\ Call(t, "Provider", c, "rejected", None)
            /\ UNCHANGED <<providerClasses, nextInst, pc, ctorArg, decorated>>
       ELSE /\ nextInst < MaxInst
            /\ nextInst' = nextInst + 1
            /\ \E b \in CtorBehaviors :
                 \/ /\ b = "return"
                    /\ providerClasses' = MapSet(providerClasses, c, nextInst + 1)
                    /\ decorated' = [decorated EXCEPT ![c] = nextInst + 1]
                    /\ Call(t, "Provider", c, "returned", nextInst + 1)
                    /\ UNCHANGED <<pc, ctorArg>>
                 \/ /\ b = "yield"
                    /\ pc' = [pc EXCEPT ![t] = "ctor"]
                    /\ ctorArg' = [ctorArg EXCEPT ![t] = [cls |-> c, inst |-> nextInst + 1]]
                    /\ Call(t, "Provider", c, "pending", nextInst + 1)
                    /\ UNCHANGED <<providerClasses, decorated>>
                 \/ /\ b = "error"
                    /\ Call(t, "Provider", c, "ctor_error", nextInst + 1)
                    /\ UNCHANGED <<providerClasses, decorated, pc, ctorArg>>
    /\ UNCHANGED <<starting, started, awaitStartThreads, thread, numInitProviders,
                   completedInit, initUnit, initCount, startCount, startUnit, startSaw>>
    /\ UNCHANGED <<lifecycleVars, restVars>>

\* A suspended constructor returns: line 36 completes with Map.set.
CtorResume(t) ==
    /\ pc[t] = "ctor"
    /\ providerClasses' = MapSet(providerClasses, ctorArg[t].cls, ctorArg[t].inst)
    /\ decorated' = [decorated EXCEPT ![ctorArg[t].cls] = ctorArg[t].inst]
    /\ pc' = [pc EXCEPT ![t] = "idle"]
    /\ ctorArg' = [ctorArg EXCEPT ![t] = [cls |-> "none", inst |-> None]]
    /\ Call(t, "Provider", ctorArg[t].cls, "returned", ctorArg[t].inst)
    /\ UNCHANGED <<starting, started, awaitStartThreads, thread, numInitProviders,
                   completedInit, nextInst, initUnit, initCount, startCount, startUnit, startSaw>>
    /\ UNCHANGED <<lifecycleVars, restVars>>

\* ---------------------------------------------- Proton.start (index.ts:287-334)
\* Line 288.
StartGuard(s, st) == s \/ st

ResumeCondBeforeIncrement(completed, num, status) ==
    completed - 1 = num /\ status = "suspended"

ResumeCondIgnoreCount(completed, num, status) == status = "suspended"

\* Line 304: the last init unit to finish resumes the thread that called
\* start(), if that thread is parked.
ResumeCond(completed, num, status) == completed = num /\ status = "suspended"

MustYieldNever(completed, num) == FALSE

MustYieldAlways(completed, num) == TRUE

\* Line 312: start() parks itself unless every init unit has already finished.
MustYield(completed, num) == completed # num

FlagsKeepStarting == [starting |-> TRUE, started |-> TRUE]

\* Lines 327-328.
FlagsAfterStart == [starting |-> FALSE, started |-> TRUE]

AwaitNeverAtOnce(st) == FALSE

\* Line 337 of awaitStart: the call returns at once when started is set.
AwaitReturnsAtOnce(st) == st

InitUnitSpawnCountsErrors(acc, p, b) ==
    [num |-> acc.num + 1,
     completed |-> IF b \in {"return", "error"} THEN acc.completed + 1 ELSE acc.completed,
     unit |-> [acc.unit EXCEPT ![p] = CASE b = "return" -> "returned"
                                         [] b = "yield" -> "yielded"
                                         [] b = "hang" -> "hung"
                                         [] b = "await" -> "parked"
                                         [] OTHER -> "errored"],
     count |-> [acc.count EXCEPT ![p] = @ + 1],
     queue |-> IF b = "await" THEN Append(acc.queue, InitUnitThread(p)) ELSE acc.queue]

\* Lines 299-307 up to the unit's first yield, run inside task.spawn while
\* start() is still in its loop (so the thread `thread` is "normal").
\* A protonInit that calls Proton.awaitStart() (lines 337-342) returns from
\* that call at once if started is set, and is otherwise appended to the
\* waiter queue and suspended inside protonInit, before line 303.
\* acc: the counters, the units' states and the waiter queue so far.
InitUnitSpawn(acc, p, b) ==
    LET num == acc.num + 1
        parks == b = "await" /\ ~AwaitReturnsAtOnce(started)
        returns == b = "return" \/ (b = "await" /\ ~parks)
        done == IF returns THEN acc.completed + 1 ELSE acc.completed
        st == CASE returns ->
                     \* task.spawn of a thread that is not suspended raises in the unit
                     IF ResumeCond(done, num, "normal") THEN "errored" ELSE "returned"
                [] b = "yield" -> "yielded"
                [] b = "hang" -> "hung"
                [] b = "await" -> "parked"
                [] OTHER -> "errored"
    IN [num |-> num,
        completed |-> done,
        unit |-> [acc.unit EXCEPT ![p] = st],
        count |-> [acc.count EXCEPT ![p] = @ + 1],
        queue |-> IF parks THEN Append(acc.queue, InitUnitThread(p)) ELSE acc.queue]

RECURSIVE InitLoopAbortOnError(_, _, _, _)
InitLoopAbortOnError(order, beh, i, acc) ==
    IF i > Len(order) THEN acc
    ELSE IF HasInit(order[i])
         THEN IF beh[order[i]] = "error"
              THEN InitUnitSpawn(acc, order[i], beh[order[i]])
              ELSE InitLoopAbortOnError(order, beh, i + 1,
                                        InitUnitSpawn(acc, order[i], beh[order[i]]))
         ELSE InitLoopAbortOnError(order, beh, i + 1, acc)

\* Lines 295-309: the loop over the registry in the order `order`, with
\* beh[p] what p's protonInit does.  (a is the accumulator after this
\* iteration, as a value: the singleton set binds it once.)
RECURSIVE InitLoop(_, _, _, _)
InitLoop(order, beh, i, acc) ==
    IF i > Len(order) THEN acc
    ELSE IF HasInit(order[i])
         THEN CHOOSE r \in {InitLoop(order, beh, i + 1, a) :
                             a \in {InitUnitSpawn(acc, order[i], beh[order[i]])}} : TRUE
         ELSE InitLoop(order, beh, i + 1, acc)

\* The threads line 330 resumes.
Waiters == {awaitStartThreads[i] : i \in DOMAIN awaitStartThreads}

\* Lines 320-323 up to the unit's first yield, run inside task.spawn.  A unit
\* that calls Proton.awaitStart() reads `started` as it is then (st) and is
\* parked in the queue unless the call returns at once.
\* acc: the invocation counts, the units' states and the waiter queue so far.
StartUnitSpawn(acc, c, b, st) ==
    LET parks == b = "await" /\ ~AwaitReturnsAtOnce(st)
        status == CASE b = "return" -> "returned"
                    [] b = "hang" -> "hung"
                    [] b = "error" -> "errored"
                    [] OTHER -> IF parks THEN "parked" ELSE "returned"
    IN [count |-> [acc.count EXCEPT ![c] = @ + 1],
        unit |-> [acc.unit EXCEPT ![c] = status],
        saw |-> [acc.saw EXCEPT ![c] = IF st THEN "Started" ELSE "NotStarted"],
        queue |-> IF parks THEN Append(acc.queue, StartUnitThread(c)) ELSE acc.queue]

RECURSIVE StartLoopAbortOnError(_, _, _, _, _)
StartLoopAbortOnError(order, beh, i, acc, st) ==
    IF i > Len(order) THEN acc
    ELSE IF HasStart(order[i])
         THEN IF beh[order[i]] = "error"
              THEN StartUnitSpawn(acc, order[i], beh[order[i]], st)
              ELSE StartLoopAbortOnError(order, beh, i + 1,
                                         StartUnitSpawn(acc, order[i], beh[order[i]], st), st)
         ELSE StartLoopAbortOnError(order, beh, i + 1, acc, st)

\* Lines 317-325: the loop over the registry in the order `order`, with
\* beh[c] what c's protonStart does; every unit is spawned whatever the
\* earlier ones did.
RECURSIVE StartLoop(_, _, _, _, _)
StartLoop(order, beh, i, acc, st) ==
    IF i > Len(order) THEN acc
    ELSE IF HasStart(order[i])
         THEN CHOOSE r \in {StartLoop(order, beh, i + 1, a, st) :
                             a \in {StartUnitSpawn(acc, order[i], beh[order[i]], st)}} : TRUE
         ELSE StartLoop(order, beh, i + 1, acc, st)

\* Line 331, task.spawn(awaitThread) for the thread x: x goes on from the
\* yield of line 342.  If x is in `again` it calls awaitStart() once more
\* straight away, reading `started` as it is then (st).
\* A unit that goes on ends "resumed": it returns, having been parked.
\* A protonInit unit that goes on returns from protonInit and runs lines
\* 302-304 while start() is in its loop of 330-332, so line 305 is not taken.
\* acc: the threads' positions, the start units' states, the queue, the
\* init units' states and completedInit.
ResumeWaiter(acc, x, again, st) ==
    LET parks == x \in again /\ ~AwaitReturnsAtOnce(st)
        queue == IF parks THEN Append(acc.queue, x) ELSE acc.queue
    IN IF x \in Threads
       THEN [acc EXCEPT !.pc = [acc.pc EXCEPT ![x] = IF parks THEN "await" ELSE "idle"],
                        !.queue = queue]
       ELSE IF x \in StartUnitThreads
       THEN [acc EXCEPT !.unit = [acc.unit EXCEPT ![ClassOfThread(x)] =
                                     IF parks THEN "parked" ELSE "resumed"],
                        !.queue = queue]
       ELSE [acc EXCEPT !.init = [acc.init EXCEPT ![ClassOfInitThread(x)] =
                                     IF parks THEN "parked" ELSE "returned"],
                        !.completed = IF parks THEN @ ELSE @ + 1,
                        !.queue = queue]

RECURSIVE ResumeLoopFirstOnly(_, _, _, _)
ResumeLoopFirstOnly(i, again, acc, st) ==
    IF i > Len(acc.queue) \/ i > 1 THEN acc
    ELSE ResumeLoopFirstOnly(i + 1, again \ {acc.queue[i]},
                             ResumeWaiter(acc, acc.queue[i], again, st), st)

\* Lines 330-332: the loop over awaitStartThreads, by index, which also
\* visits what is appended while it runs.
RECURSIVE ResumeLoop(_, _, _, _)
ResumeLoop(i, again, acc, st) ==
    IF i > Len(acc.queue) THEN acc
    ELSE CHOOSE r \in {ResumeLoop(i + 1, again \ {acc.queue[i]}, a, st) :
                        a \in {ResumeWaiter(acc, acc.queue[i], again, st)}} : TRUE

QueueKept(q) == q

SeenAfterFlags(st) == TRUE

\* Lines 317-325 run before line 328 assigns `started`: a protonStart unit,
\* run by task.spawn inside the loop, reads the value start() found.
SeenBySpawned(st) == st

\* Line 333: awaitStartThreads.clear().
QueueAfterResume(q) == << >>

\* Lines 316-333, run by thread `starter` either straight after the loop or
\* when the barrier resumes it: spawn the protonStart units, set the flags,
\* resume the parked awaitStart() callers, clear the queue, return.  A run
\* that does not yield at the barrier visits the registry, unchanged in
\* between, in the same order in both loops.
\* order: the order in which line 317 visits the registry.  Either none of
\* the resumed waiters calls awaitStart() again at once, or all of them do.
\* in: the waiter queue, the init units' states and completedInit as the
\* init phase left them.
Phase2(starter, order, in) ==
    \E beh \in [{c \in DOMAIN providerClasses : HasStart(c)} -> StartBehaviors] :
    \E again \in {{}, {in.queue[i] : i \in DOMAIN in.queue} \cup {StartUnitThread(c) : c \in DOMAIN beh}} :
      \E s1 \in {StartLoop(order, beh, 1,
                            [count |-> startCount, unit |-> startUnit, saw |-> startSaw,
                             queue |-> in.queue],
                            SeenBySpawned(started))} :
      \E s2 \in {ResumeLoop(1, again,
                             [pc |-> pc, unit |-> s1.unit, queue |-> s1.queue,
                              init |-> in.unit, completed |-> in.completed],
                             FlagsAfterStart.started)} :
         /\ initUnit' = s2.init
         /\ completedInit' = s2.completed
         /\ startCount' = s1.count
         /\ startSaw' = s1.saw
         /\ starting' = FlagsAfterStart.starting
         /\ started' = FlagsAfterStart.started
         /\ startUnit' = s2.unit
         /\ pc' = [s2.pc EXCEPT ![starter] = "idle"]
         /\ awaitStartThreads' = QueueAfterResume(s2.queue)

StartCall(t) ==
    /\ CanCall(t)
    /\ IF StartGuard(starting, started)
       THEN /\ Call(t, "start", "none", "noop", None)
            /\ UNCHANGED <<starting, started, awaitStartThreads, thread, numInitProviders,
                           completedInit, pc, initUnit, initCount, startCount, startUnit, startSaw>>
       ELSE \E order \in Orders(DOMAIN providerClasses) :
            \E beh \in [{c \in DOMAIN providerClasses : HasInit(c)} -> InitBehaviors] :
              LET r == InitLoop(order, beh, 1,
                                [num |-> 0, completed |-> 0, unit |-> initUnit, count |-> initCount,
                                 queue |-> awaitStartThreads])
              IN /\ thread' = t
                 /\ numInitProviders' = r.num
                 /\ initCount' = r.count
                 /\ IF MustYield(r.completed, r.num)
                    THEN /\ starting' = TRUE
                         /\ completedInit' = r.completed
                         /\ initUnit' = r.unit
                         /\ awaitStartThreads' = r.queue
                         /\ pc' = [pc EXCEPT ![t] = "barrier"]
                         /\ Call(t, "start", "none", "pending", None)
                         /\ UNCHANGED <<started, startCount, startUnit, startSaw>>
                    ELSE /\ Phase2(t, order, r)
                         /\ Call(t, "start", "none", "returned", None)
    /\ UNCHANGED <<providerClasses, nextInst, ctorArg, decorated>>
    /\ UNCHANGED <<lifecycleVars, restVars>>

\* The scheduler resumes the protonInit unit of class c, which returns:
\* lines 302-306.
InitResume(c) ==
    /\ initUnit[c] = "yielded"
    /\ event' = Event(None, "protonInit", c, "returned", None)
    /\ UNCHANGED <<providerClasses, thread, numInitProviders, nextInst, ctorArg,
                   initCount, decorated>>
    /\ UNCHANGED <<lifecycleVars, restVars>>
    /\ IF ResumeCond(completedInit + 1, numInitProviders, CoStatus(thread)) /\ pc[thread] = "barrier"
       THEN \E order \in Orders(DOMAIN providerClasses) :
              Phase2(thread, order, [queue |-> awaitStartThreads,
                                     unit |-> [initUnit EXCEPT ![c] = "returned"],
                                     completed |-> completedInit + 1])
       ELSE /\ initUnit' = [initUnit EXCEPT ![c] = "returned"]
            /\ completedInit' = completedInit + 1
            /\ UNCHANGED <<starting, started, awaitStartThreads, pc, startCount, startUnit, startSaw>>

\* ----------------------------------------- Proton.awaitStart (index.ts:336-343)
AwaitStart(t) ==
    /\ CanCall(t)
    /\ IF AwaitReturnsAtOnce(started)
       THEN /\ Call(t, "awaitStart", "none", "returned", None)
            /\ UNCHANGED <<awaitStartThreads, pc>>
       ELSE /\ awaitStartThreads' = Append(awaitStartThreads, t)
            /\ pc' = [pc EXCEPT ![t] = "await"]
            /\ Call(t, "awaitStart", "none", "pending", None)
    /\ UNCHANGED <<providerClasses, starting, started, thread, numInitProviders,
                   completedInit, nextInst, ctorArg, initUnit, initCount, startCount,
                   startUnit, startSaw, decorated>>
    /\ UNCHANGED <<lifecycleVars, restVars>>

\* ------------------------------------------------ Proton.get (index.ts:345-351)
\* Line 346: Map.get, undefined (None) for a class that is not a key.
GetProvider(m, c) == IF c \in DOMAIN m THEN m[c] ELSE None

NotFoundNever(provider) == FALSE

\* Line 347: provider === undefined.
NotFound(provider) == provider = None

Get(t, c) ==
    /\ CanCall(t)
    /\ LET provider == GetProvider(providerClasses, c)
       IN IF NotFound(provider)
          THEN Call(t, "get", c, "error", None)
          ELSE Call(t, "get", c, "returned", provider)
    /\ UNCHANGED <<providerClasses, starting, started, awaitStartThreads, thread,
                   numInitProviders, completedInit, nextInst, pc, ctorArg, initUnit,
                   initCount, startCount, startUnit, startSaw, decorated>>
    /\ UNCHANGED <<lifecycleVars, restVars>>

\* ------------------------------------------------------------ specification
Next ==
    \/ \E t \in Threads, c \in Classes : Provider(t, c)
    \/ \E t \in Threads : CtorResume(t)
    \/ \E t \in Threads : StartCall(t)
    \/ \E c \in Classes : InitResume(c)
    \/ \E t \in Threads : AwaitStart(t)
    \/ \E t \in Threads, c \in Classes : Get(t, c)

Spec == Init /\ [][Next]_vars

\* The scheduler resumes every unit that yielded and is ready to go on.
FairSpec == Spec /\ \A c \in Classes : WF_vars(InitResume(c))

\* ======================================================================
\* Part 2: class Lifecycle (lifecycle.ts:23-127)
\* ======================================================================
\* Entries in the callback list and subscriptions made, together.
MaxLen == 3
\* Subscriptions made: calls of onRegistered() and onUnregistered().
MaxSubs == 2

\* The callback functions handed to register() and the observer functions
\* handed to onRegistered() / onUnregistered().
Callbacks == {"a", "b", "c"}
Observers == {"o1", "o2"}

\* What a callback may do when fire() invokes it: return, raise an error,
\* suspend for good, or unregister a callback (itself or another one) and
\* return.
CallbackBehaviors ==
    [do : {"return", "error", "hang"}, arg : {"none"}]
        \cup [do : {"unregister"}, arg : Callbacks]

\* What an observer may do the first time it is called within one Lifecycle
\* call: return, or call register() or unregister() and return.  Called
\* again within the same call it returns.
ObserverBehaviors ==
    [do : {"return"}, arg : {"none"}]
        \cup [do : {"register", "unregister"}, arg : Callbacks]

Return == [do |-> "return", arg |-> "none"]

\* What the callbacks in S do in one call of fire(): each returns, raises or
\* suspends, and at most one of them unregisters.  A callback outside S is
\* not in the list.
CallbackInputs(S) ==
    LET plain == {[x \in Callbacks |-> IF x \in S THEN g[x] ELSE Return] :
                     g \in [S -> {b \in CallbackBehaviors : b.do # "unregister"}]}
    IN plain \cup UNION {{[f EXCEPT ![u] = b] :
                              f \in {g \in plain : g[u] = Return},
                              b \in {c \in CallbackBehaviors : c.do = "unregister"}} :
                          u \in S}

\* What the observers do in one Lifecycle call: all return, or one of the
\* subscribed ones S acts.
ObserverInputs(S) ==
    {[x \in Observers |-> IF x = o THEN b ELSE Return] : o \in S, b \in ObserverBehaviors}
        \cup {[x \in Observers |-> Return]}

Range(s) == {s[i] : i \in 1..Len(s)}

\* The last position of x in s, 0 when x is not in s.
LastIndexOf(s, x) ==
    IF \E i \in 1..Len(s) : s[i] = x
    THEN CHOOSE i \in 1..Len(s) : s[i] = x /\ \A j \in (i + 1)..Len(s) : s[j] # x
    ELSE 0

\* Array.indexOf: the first position of x in s (from 1), 0 when x is not in
\* s (the code's -1).
IndexOf(s, x) ==
    IF \E i \in 1..Len(s) : s[i] = x
    THEN CHOOSE i \in 1..Len(s) : s[i] = x /\ \A j \in 1..(i - 1) : s[j] # x
    ELSE 0

\* Array.unorderedRemove(index): the last entry takes the place of the one
\* removed and the array gets one shorter.
UnorderedRemove(s, i) ==
    [j \in 1..(Len(s) - 1) |-> IF j = i THEN s[Len(s)] ELSE s[j]]

\* s without its first entry equal to x, the other entries in their order.
RemoveFirst(s, x) ==
    LET i == IndexOf(s, x)
    IN IF i = 0 THEN s ELSE SubSeq(s, 1, i - 1) \o SubSeq(s, i + 1, Len(s))

RECURSIVE NotifyLoop(_, _, _, _, _, _)
RECURSIVE RegisterCall(_, _, _)
RECURSIVE UnregisterCall(_, _, _)

\* An observer is called with cb (lines 45 and 75) and does what obeh says.
ObserverCall(s, kind, o, cb, obeh) ==
    LET s1 == [s EXCEPT !.notified = Append(@, <<kind, o, cb>>)]
    IN IF o \in s.acted \/ obeh[o].do = "return" THEN s1
       ELSE LET s2 == [s1 EXCEPT !.acted = @ \cup {o}]
            IN IF obeh[o].do = "register"
               THEN RegisterCall(s2, obeh[o].arg, obeh)
               ELSE UnregisterCall(s2, obeh[o].arg, obeh)

\* A loop that calls the first observer of the list only.
NotifyLoopFirstOnly(s, kind, observers, cb, obeh, j) ==
    IF j > Len(observers) \/ j > 1 THEN s
    ELSE ObserverCall(s, kind, observers[j], cb, obeh)

\* Lines 44-46 and 74-76: the observers of the list are called with cb, in
\* list order, from position j on.
NotifyLoop(s, kind, observers, cb, obeh, j) ==
    IF j > Len(observers) THEN s
    ELSE CHOOSE r \in {NotifyLoop(s1, kind, observers, cb, obeh, j + 1) :
                          s1 \in {ObserverCall(s, kind, observers[j], cb, obeh)}} : TRUE

\* register(cb), lines 72-77.
RegisterCall(s, cb, obeh) ==
    NotifyLoop([s EXCEPT !.callbacks = Append(@, cb), !.registered = Append(@, cb)],
               "registered", onRegisteredCallbacks, cb, obeh, 1)

\* unregister(cb), lines 83-88 (and 43-47).
UnregisterCall(s, cb, obeh) ==
    LET index == IndexOf(s.callbacks, cb)
    IN IF index = 0 THEN s
       ELSE NotifyLoop([s EXCEPT !.callbacks = UnorderedRemove(@, index),
                                 !.registered = RemoveFirst(@, cb)],
                       "unregistered", onUnregisteredCallbacks, cb, obeh, 1)

\* unregisterAll(), lines 94-96: the loop over the callback list, which the
\* observers may change while it runs, from position i on.
RECURSIVE UnregisterAllLoop(_, _, _)
UnregisterAllLoop(s, obeh, i) ==
    IF i > Len(s.callbacks) THEN s
    ELSE CHOOSE r \in {UnregisterAllLoop(s1, obeh, i + 1) :
                          s1 \in {NotifyLoop(s, "unregistered", onUnregisteredCallbacks,
                                             s.callbacks[i], obeh, 1)}} : TRUE

\* fire() invokes the callback cb (lines 51 and 57).
CallbackCall(s, cb, beh, obeh) ==
    LET s1 == [s EXCEPT !.invoked = Append(@, cb), !.did = Append(@, beh[cb])]
    IN IF beh[cb].do = "unregister" THEN UnregisterCall(s1, beh[cb].arg, obeh) ELSE s1

\* A Series loop that goes on with the next callback after an error.
RECURSIVE FireSeriesIgnoreError(_, _, _, _)
FireSeriesIgnoreError(s, beh, obeh, i) ==
    IF i > Len(s.callbacks) THEN s
    ELSE IF beh[s.callbacks[i]].do = "hang"
         THEN [CallbackCall(s, s.callbacks[i], beh, obeh) EXCEPT !.out = "suspended"]
         ELSE CHOOSE r \in {FireSeriesIgnoreError(s1, beh, obeh, i + 1) :
                               s1 \in {CallbackCall(s, s.callbacks[i], beh, obeh)}} : TRUE

\* Lines 55-59: the callbacks are called one after the other, from position
\* i on; an error raised by one ends the loop and fire(), and fire() is
\* suspended while a callback is.
RECURSIVE FireSeries(_, _, _, _)
FireSeries(s, beh, obeh, i) ==
    IF i > Len(s.callbacks) THEN s
    ELSE LET cb == s.callbacks[i]
         IN IF beh[cb].do = "error"
            THEN [CallbackCall(s, cb, beh, obeh) EXCEPT !.out = "raised"]
            ELSE IF beh[cb].do = "hang"
            THEN [CallbackCall(s, cb, beh, obeh) EXCEPT !.out = "suspended"]
            ELSE CHOOSE r \in {FireSeries(s1, beh, obeh, i + 1) :
                                  s1 \in {CallbackCall(s, cb, beh, obeh)}} : TRUE

\* A Concurrent loop that an error raised by a callback ends.
RECURSIVE FireConcurrentAbortOnError(_, _, _, _)
FireConcurrentAbortOnError(s, beh, obeh, i) ==
    IF i > Len(s.callbacks) THEN s
    ELSE IF beh[s.callbacks[i]].do = "error"
         THEN [CallbackCall(s, s.callbacks[i], beh, obeh) EXCEPT !.out = "raised"]
         ELSE CHOOSE r \in {FireConcurrentAbortOnError(s1, beh, obeh, i + 1) :
                               s1 \in {CallbackCall(s, s.callbacks[i], beh, obeh)}} : TRUE

\* A Concurrent loop that waits for each callback to complete.
RECURSIVE FireConcurrentWaits(_, _, _, _)
FireConcurrentWaits(s, beh, obeh, i) ==
    IF i > Len(s.callbacks) THEN s
    ELSE IF beh[s.callbacks[i]].do = "hang"
         THEN [CallbackCall(s, s.callbacks[i], beh, obeh) EXCEPT !.out = "suspended"]
         ELSE CHOOSE r \in {FireConcurrentWaits(s1, beh, obeh, i + 1) :
                               s1 \in {CallbackCall(s, s.callbacks[i], beh, obeh)}} : TRUE

\* Lines 49-53: every callback is run by task.spawn in a thread of its own,
\* from position i on; an error or a suspension ends that thread's run only.
RECURSIVE FireConcurrent(_, _, _, _)
FireConcurrent(s, beh, obeh, i) ==
    IF i > Len(s.callbacks) THEN s
    ELSE CHOOSE r \in {FireConcurrent(s1, beh, obeh, i + 1) :
                          s1 \in {CallbackCall(s, s.callbacks[i], beh, obeh)}} : TRUE

\* The observers a Lifecycle call can reach.
Subscribed == Range(onRegisteredCallbacks) \cup Range(onUnregisteredCallbacks)

\* Whether a run with the callback list cbs is within the bounds.
Fits(cbs) == Len(cbs) + Len(closures) <= MaxLen

\* ------------------------------------------- register (lifecycle.ts:72-77)
\* obeh[o]: what the observer o does in this call.
Register(cb, obeh) ==
    /\ \E s \in {RegisterCall(Run(callbacks, registered), cb, obeh)} :
          /\ Fits(s.callbacks)
          /\ callbacks' = s.callbacks
          /\ registered' = s.registered
          /\ fired' = Fired("register", cb, s)
    /\ UNCHANGED <<behavior, onRegisteredCallbacks, onUnregisteredCallbacks, closures>>
    /\ UNCHANGED <<protonVars, restVars>>

\* ----------------------------------------- unregister (lifecycle.ts:83-88)
Unregister(cb, obeh) ==
    /\ \E s \in {UnregisterCall(Run(callbacks, registered), cb, obeh)} :
          /\ Fits(s.callbacks)
          /\ callbacks' = s.callbacks
          /\ registered' = s.registered
          /\ fired' = Fired("unregister", cb, s)
    /\ UNCHANGED <<behavior, onRegisteredCallbacks, onUnregisteredCallbacks, closures>>
    /\ UNCHANGED <<protonVars, restVars>>

\* -------------------------------------- unregisterAll (lifecycle.ts:93-98)
UnregisterAll(obeh) ==
    /\ \E s \in {UnregisterAllLoop(Run(callbacks, registered), obeh, 1)} :
          fired' = Fired("unregisterAll", "none", s)
    /\ callbacks' = << >>
    /\ registered' = << >>
    /\ UNCHANGED <<behavior, onRegisteredCallbacks, onUnregisteredCallbacks, closures>>
    /\ UNCHANGED <<protonVars, restVars>>

\* ------------------------------------------ fire (lifecycle.ts:32-41, 49-59)
\* beh[cb]: what the callback cb does in this call of fire().
Fire(beh, obeh) ==
    /\ \E s \in {IF behavior = "Series"
                 THEN FireSeries(Run(callbacks, registered), beh, obeh, 1)
                 ELSE FireConcurrent(Run(callbacks, registered), beh, obeh, 1)} :
          /\ Fits(s.callbacks)
          /\ callbacks' = s.callbacks
          /\ registered' = s.registered
          /\ fired' = Fired("fire", "none", s)
    /\ UNCHANGED <<behavior, onRegisteredCallbacks, onUnregisteredCallbacks, closures>>
    /\ UNCHANGED <<protonVars, restVars>>

\* ------------------------- onRegistered, onUnregistered (lifecycle.ts:105-126)
\* The closure a subscription returns: the list it works on, the observer it
\* holds, and whether it has been called.
Closure(l, o) == [list |-> l, obs |-> o, called |-> FALSE]

OnRegistered(o) ==
    /\ Len(closures) < MaxSubs /\ Fits(Append(callbacks, o))
    /\ onRegisteredCallbacks' = Append(onRegisteredCallbacks, o)
    /\ closures' = Append(closures, Closure("onRegistered", o))
    /\ fired' = Fired("onRegistered", o, Run(callbacks, registered))
    /\ UNCHANGED <<behavior, callbacks, onUnregisteredCallbacks, registered>>
    /\ UNCHANGED <<protonVars, restVars>>

OnUnregistered(o) ==
    /\ Len(closures) < MaxSubs /\ Fits(Append(callbacks, o))
    /\ onUnregisteredCallbacks' = Append(onUnregisteredCallbacks, o)
    /\ closures' = Append(closures, Closure("onUnregistered", o))
    /\ fired' = Fired("onUnregistered", o, Run(callbacks, registered))
    /\ UNCHANGED <<behavior, callbacks, onRegisteredCallbacks, registered>>
    /\ UNCHANGED <<protonVars, restVars>>

\* Lines 108-110 and 122-124: what a closure holding the observer o leaves of
\* the list it works on.
Cleanup(observers, o) ==
    LET index == IndexOf(observers, o)
    IN IF index = 0 THEN observers ELSE UnorderedRemove(observers, index)

\* The k-th closure returned is called, and it is one onRegistered()
\* returned (lines 107-111).
StopOnRegistered(k) ==
    /\ k \in 1..Len(closures)
    /\ closures[k].list = "onRegistered"
    /\ onRegisteredCallbacks' = Cleanup(onRegisteredCallbacks, closures[k].obs)
    /\ closures' = [closures EXCEPT ![k].called = TRUE]
    /\ fired' = Fired("stopOnRegistered", k, Run(callbacks, registered))
    /\ UNCHANGED <<behavior, callbacks, onUnregisteredCallbacks, registered>>
    /\ UNCHANGED <<protonVars, restVars>>

\* The k-th closure returned is called, and it is one onUnregistered()
\* returned (lines 121-125).
StopOnUnregistered(k) ==
    /\ k \in 1..Len(closures)
    /\ closures[k].list = "onUnregistered"
    /\ onUnregisteredCallbacks' = Cleanup(onUnregisteredCallbacks, closures[k].obs)
    /\ closures' = [closures EXCEPT ![k].called = TRUE]
    /\ fired' = Fired("stopOnUnregistered", k, Run(callbacks, registered))
    /\ UNCHANGED <<behavior, callbacks, onRegisteredCallbacks, registered>>
    /\ UNCHANGED <<protonVars, restVars>>

\* A Lifecycle constructed in either mode.
LifecycleInit ==
    /\ OrchestratorInit
    /\ \E b \in LifecycleBehavior : LifecycleNew(b)
    /\ AttributesNew("Immediate")
    /\ ComponentRunnerNew(TRUE, TRUE)

LifecycleNext ==
    \/ \E cb \in Callbacks, obeh \in ObserverInputs(Subscribed) : Register(cb, obeh)
    \/ \E cb \in Callbacks, obeh \in ObserverInputs(Subscribed) : Unregister(cb, obeh)
    \/ \E obeh \in ObserverInputs(Subscribed) : UnregisterAll(obeh)
    \/ \E beh \in CallbackInputs(Range(callbacks)), obeh \in ObserverInputs({}) :
          Fire(beh, obeh)
    \/ \E o \in Observers : OnRegistered(o)
    \/ \E o \in Observers : OnUnregistered(o)
    \/ \E k \in 1..MaxSubs : StopOnRegistered(k)
    \/ \E k \in 1..MaxSubs : StopOnUnregistered(k)

LifecycleSpec == LifecycleInit /\ [][LifecycleNext]_vars

\* ------------------------------------------------------------- type sanity
TypeOK ==
    /\ DOMAIN providerClasses \subseteq Classes
    /\ starting \in BOOLEAN /\ started \in BOOLEAN
    /\ thread \in Threads \cup {None}
    /\ completedInit <= numInitProviders
    /\ \A t \in Threads : pc[t] \in {"idle", "ctor", "barrier", "await"}

\* ------------------------------------------------------------------ claims
\* The init units start() spawned have all returned.
SpawnedInitReturned == \A c \in Classes : initCount[c] > 0 => initUnit[c] = "returned"

\* Thread t's start() call returns in this step: at once, or out of the barrier.
StartReturns(t) ==
    \/ event'.op = "start" /\ event'.t = t /\ event'.out \in {"returned", "noop"}
    \/ pc[t] = "barrier" /\ pc'[t] = "idle"

\* 0, 1, 2 for NotStarted, Initializing, Started.
StateRank == IF started THEN 2 ELSE IF starting THEN 1 ELSE 0

\* C1: whenever a protonStart is invoked, the protonInit of every init-capable
\* provider in the registry has returned.
C1_StartAfterEveryInit ==
    [][(\E c \in Classes : startCount'[c] > startCount[c])
         => \A q \in DOMAIN providerClasses' : HasInit(q) => initUnit'[q] = "returned"]_vars

\* C2: started is set at most once (once set it stays set), and the step that
\* sets it ends with completedInit = numInitProviders, that number being the
\* number of protonInit units spawned, all of which have returned.
C2_StartedOnceAfterAllInit ==
    [][/\ started => started'
       /\ (~started /\ started')
            => /\ completedInit' = numInitProviders'
               /\ numInitProviders' = Cardinality({c \in Classes : initCount'[c] > 0})
               /\ \A c \in Classes : initCount'[c] > 0 => initUnit'[c] = "returned"]_vars

\* Started was reached through the barrier: the last of two init units, resumed
\* by the scheduler, released start().
C2_Witness ==
    started /\ numInitProviders = 2 /\ completedInit = 2 /\ event.op = "protonInit"

\* C3: no step takes the orchestrator state back (NotStarted < Initializing <
\* Started), and starting and started are never both true.
C3_StateMonotonic ==
    [][StateRank' >= StateRank /\ ~(starting' /\ started')]_vars

\* In state Started, reached through Initializing, a further start() call was made.
C3_Witness ==
    /\ started /\ ~starting
    /\ \E c \in Classes : initUnit[c] = "returned" /\ initCount[c] = 1
    /\ event.op = "start" /\ event.out = "noop"

\* C4: once start() has been called and no init unit it spawned raised an
\* error or hangs, start() reaches Started and returns to its caller.
C4_StartCompletes ==
    (thread # None /\ \A c \in Classes : initUnit[c] \in {"none", "yielded", "returned"})
        ~> (started /\ pc[thread] = "idle")

\* start() was parked at the barrier and the last init unit released it, the
\* other unit having returned without yielding or before.
C4_Witness ==
    /\ started /\ thread # None /\ pc[thread] = "idle"
    /\ numInitProviders = 2 /\ event.op = "protonInit"

\* C5: every start() call that returns does so when all init units spawned
\* have returned (completedInit = numInitProviders).
C5_StartReturnsAfterPhase1 ==
    [][\A t \in Threads :
         StartReturns(t) => (completedInit' = numInitProviders' /\ SpawnedInitReturned')]_vars

\* C6: protonInit and protonStart run at most once per provider; once start()
\* has been entered every registered init-capable provider's protonInit has
\* been invoked exactly once; a start() call in a state other than NotStarted
\* changes nothing.
C6_StartIdempotent ==
    /\ [](\A c \in Classes : initCount[c] <= 1 /\ startCount[c] <= 1)
    /\ [](thread # None
            => \A c \in DOMAIN providerClasses : HasInit(c) => initCount[c] = 1)
    /\ [][(event'.op = "start" /\ (starting \/ started))
            => UNCHANGED <<providerClasses, starting, started, awaitStartThreads, thread,
                           numInitProviders, completedInit, initUnit, initCount,
                           startCount, pc>>]_vars

\* C7: a start() call made after start() has been called raises an error.
C7_SecondStartRaises ==
    [][(event'.op = "start" /\ thread # None) => event'.out = "raised"]_vars

C9_RegistryFrozenAfterStart ==
    [][(starting \/ started) => providerClasses' = providerClasses]_vars

\* C10: get(P), for a class P the decorator has stored an instance for,
\* returns that instance (the one stored last), in every orchestrator state,
\* and changes neither the registry nor the state flags.
C10_GetReturnsSingleton ==
    [][\A t \in Threads, c \in Classes :
         (event'.op = "get" /\ event'.t = t /\ event'.cls = c /\ decorated[c] # None)
           => /\ event'.out = "returned"
              /\ event'.inst = decorated[c]
              /\ UNCHANGED <<providerClasses, starting, started, awaitStartThreads,
                             decorated, pc>>]_vars

\* In state Started, get returned the instance stored for the one registered
\* class, the second instance constructed.
C10_Witness ==
    /\ started
    /\ event.op = "get" /\ event.out = "returned"
    /\ event.inst = 2 /\ Cardinality(DOMAIN providerClasses) = 1

\* C11: get(P), for a class P the decorator has never stored an instance for,
\* raises the provider-not-found error, in every orchestrator state, and gives
\* out no instance and changes neither the registry nor the orchestrator state.
C11_GetUnregisteredRaises ==
    [][\A t \in Threads, c \in Classes :
         (event'.op = "get" /\ event'.t = t /\ event'.cls = c /\ decorated[c] = None)
           => /\ event'.out = "error"
              /\ event'.inst = None
              /\ UNCHANGED <<providerClasses, starting, started, awaitStartThreads, thread,
                             numInitProviders, completedInit, nextInst, pc, ctorArg,
                             initUnit, startUnit, decorated>>]_vars

\* In state Started, the registry holding a provider, get raised the error for
\* a class that is not registered.
C11_Witness ==
    /\ started /\ DOMAIN providerClasses # {}
    /\ event.op = "get" /\ event.out = "error"
    /\ event.cls \notin DOMAIN providerClasses

\* The threads suspended at line 342: application threads and protonStart
\* units inside awaitStart().
Parked ==
    {t \in Threads : pc[t] = "await"}
        \cup {StartUnitThread(c) : c \in {d \in Classes : startUnit[d] = "parked"}}
        \cup {InitUnitThread(c) : c \in {d \in Classes : initUnit[d] = "parked"}}

\* C12: a thread that called awaitStart() while started was false stays
\* suspended until the step that sets started, and is resumed in that step,
\* once: while started is false the waiter queue holds exactly the suspended
\* callers, each once; a suspended caller goes on only in the step that sets
\* started, and returns; once started is set nobody is suspended in
\* awaitStart().  A protonStart unit that calls awaitStart() is parked and
\* resumed within the one run of start().
C12_WaitersResumedAtStarted ==
    /\ [](~started => /\ Waiters = Parked
                      /\ Len(awaitStartThreads) = Cardinality(Parked))
    /\ [](started => Parked = {})
    /\ [](\A c \in Classes : startUnit[c] = "resumed" => started)
    /\ [][\A t \in Threads :
            (pc[t] = "await" /\ pc'[t] # "await")
              => (~started /\ started' /\ pc'[t] = "idle")]_vars

\* Started was reached through the barrier and the run of start() resumed two
\* protonStart units that had called awaitStart() during that run.
C12_Witness ==
    /\ started /\ event.op = "protonInit"
    /\ startUnit["A"] = "resumed" /\ startUnit["C"] = "resumed"

\* C13: awaitStart() called when started is set returns at once: the caller is
\* not suspended and the waiter queue is as it was.
C13_AwaitStartAfterStarted ==
    [][\A t \in Threads :
         (event'.op = "awaitStart" /\ event'.t = t /\ started)
           => /\ event'.out = "returned"
              /\ pc'[t] = "idle"
              /\ awaitStartThreads' = awaitStartThreads
              /\ pc' = pc]_vars

\* In state Started, reached through the barrier, awaitStart() was called and
\* returned.
C13_Witness ==
    /\ started /\ numInitProviders > 0
    /\ event.op = "awaitStart" /\ event.out = "returned"
    /\ awaitStartThreads = << >>

\* C14: once started is set the waiter queue is empty, in every state from
\* then on (started stays set, C3): start() clears it after resuming the
\* waiters, and an awaitStart() call made from then on, by a resumed waiter
\* or by anyone else, adds nothing to it.
C14_QueueEmptyOnceStarted ==
    started => awaitStartThreads = << >>

\* start() ran to its end without yielding; a protonStart unit had called
\* awaitStart() during the start loop, was queued, and was resumed.
C14_Witness ==
    /\ started /\ awaitStartThreads = << >>
    /\ event.op = "start" /\ event.out = "returned"
    /\ \E c \in Classes : startUnit[c] = "resumed"

\* C15: from the moment a protonInit that never returns has been invoked, the
\* orchestrator is Initializing in every state: start() is parked at the
\* barrier, no protonStart has been invoked, and no thread suspended in
\* awaitStart() goes on.
C15_HungInitStallsStartup ==
    /\ []((\E c \in Classes : initUnit[c] = "hung")
            => /\ starting /\ ~started
               /\ thread # None /\ pc[thread] = "barrier"
               /\ completedInit < numInitProviders
               /\ \A c \in Classes : startCount[c] = 0 /\ startUnit[c] = "none")
    /\ [][(\E c \in Classes : initUnit[c] = "hung")
            => /\ \E c \in Classes : initUnit'[c] = "hung"
               /\ \A t \in Threads : pc[t] = "await" => pc'[t] = "await"
               /\ thread' = thread /\ pc'[thread] = "barrier"]_vars

\* One protonInit hangs, the other one yielded and has since returned; a
\* thread is suspended in awaitStart() and start() is parked.
C15_Witness ==
    /\ \E c \in Classes : initUnit[c] = "hung"
    /\ \E c \in Classes : initUnit[c] = "returned"
    /\ event.op = "protonInit"
    /\ Len(awaitStartThreads) > 0

C17_InitErrorThrownToCaller ==
    [][(thread = None /\ thread' # None /\ \E d \in Classes : initUnit'[d] = "errored")
         => /\ event'.op = "start" /\ event'.out = "raised"
            /\ pc'[thread'] = "idle"]_vars

\* C18: the step in which start() passes the barrier spawns the protonStart
\* unit of every start-capable provider in the registry, whatever the units
\* do (return, never return, raise an error, call awaitStart()), sets started,
\* leaves nobody suspended in awaitStart() and returns to the caller of
\* start().
C18_StartPhaseFireAndForget ==
    [][(~started /\ started')
         => /\ \A c \in DOMAIN providerClasses :
                 HasStart(c) => startCount'[c] = startCount[c] + 1 /\ startUnit'[c] # "none"
            /\ \A c \in Classes :
                 ~(c \in DOMAIN providerClasses /\ HasStart(c)) => startCount'[c] = startCount[c]
            /\ ~starting'
            /\ Parked' = {} /\ awaitStartThreads' = << >>
            /\ thread' # None /\ pc'[thread'] = "idle"]_vars

\* Started, with one protonStart unit that never returns and another one that
\* raised an error.
C18_Witness ==
    /\ started /\ thread # None /\ pc[thread] = "idle"
    /\ \E c \in Classes : startUnit[c] = "hung"
    /\ \E c \in Classes : startUnit[c] = "errored"

\* C19: start() called in NotStarted with no init-capable provider in the
\* registry spawns no init unit, sets started and returns, all in the calling
\* step (the caller is never suspended); and no unit is ever spawned for a
\* capability a provider does not have.
C19_NoInitFastPath ==
    /\ [][\A t \in Threads :
            (/\ event'.op = "start" /\ event'.t = t
             /\ ~starting /\ ~started
             /\ \A c \in DOMAIN providerClasses : ~HasInit(c))
              => /\ event'.out = "returned"
                 /\ numInitProviders' = 0
                 /\ initCount' = initCount /\ initUnit' = initUnit
                 /\ started' /\ ~starting'
                 /\ pc'[t] = "idle"]_vars
    /\ [](\A c \in Classes :
            /\ ~HasInit(c) => initCount[c] = 0 /\ initUnit[c] = "none"
            /\ ~HasStart(c) => startCount[c] = 0 /\ startUnit[c] = "none")

\* start() returned in state Started without a barrier, the registry holding
\* the provider that has neither protonInit nor protonStart.
C19_Witness ==
    /\ started /\ numInitProviders = 0
    /\ event.op = "start" /\ event.out = "returned"
    /\ "D" \in DOMAIN providerClasses

\* C20: a Series-mode fire() whose callbacks all return has invoked every
\* callback now registered exactly once, in the order in which they were
\* registered.
C20_SeriesFiresInRegistrationOrder ==
    [][(fired'.op = "fire" /\ behavior = "Series"
          /\ \A i \in 1..Len(fired'.did) : fired'.did[i].do = "return")
         => fired'.invoked = registered]_vars

\* How many entries of s are x.
Count(s, x) == Cardinality({i \in 1..Len(s) : s[i] = x})

\* C21: a Concurrent fire() invokes every callback that is in the list when
\* fire() is called exactly once per entry, whatever the callbacks do, a
\* callback that unregisters itself or another one included.
C21_ConcurrentInvokesEveryCallbackOnce ==
    [][(fired'.op = "fire" /\ behavior = "Concurrent")
         => \A cb \in Callbacks : Count(fired'.invoked, cb) = Count(callbacks, cb)]_vars

\* C22: once unregister(cb) has returned, the fire() that follows does not
\* invoke cb, in either mode and whatever was registered before.
C22_UnregisteredNotInvoked ==
    [][(fired.op = "unregister" /\ fired'.op = "fire")
         => fired.arg \notin Range(fired'.invoked)]_vars

\* Whether a callback invoked by the fire() recorded in f did d.
Did(f, d) == \E i \in 1..Len(f.did) : f.did[i].do = d

\* C23: in a Series fire() the callback that raises is the last one invoked
\* and fire() raises the error to its caller; the error leaves the callback
\* list as it was (no invoked callback having unregistered), and the fire()
\* made after it starts with the first callback of the list.
C23_SeriesErrorHaltsFire ==
    [][(fired'.op = "fire" /\ behavior = "Series")
         => /\ \A i \in 1..Len(fired'.did) :
                  fired'.did[i].do = "error"
                      => /\ i = Len(fired'.invoked)
                         /\ fired'.out = "raised"
            /\ (fired'.out = "raised" /\ ~Did(fired', "unregister"))
                  => /\ callbacks' = callbacks
                     /\ fired'.invoked = SubSeq(callbacks, 1, Len(fired'.invoked))
            /\ (fired.op = "fire" /\ fired.out = "raised")
                  => /\ Len(fired'.invoked) >= 1
                     /\ fired'.invoked[1] = callbacks[1]]_vars

\* A Series fire() in which the second of three callbacks raised: the third
\* was not invoked.
C23_Witness ==
    /\ behavior = "Series"
    /\ fired.op = "fire" /\ fired.out = "raised"
    /\ Len(fired.invoked) = 2 /\ Len(callbacks) = 3
    /\ fired.did[1].do = "return" /\ fired.did[2].do = "error"

\* C24: in a Concurrent fire() (no callback unregistering) a callback that
\* raises an error keeps no callback of the list from being invoked, and
\* fire() returns to its caller without the error.
C24_ConcurrentErrorIsolated ==
    [][(fired'.op = "fire" /\ behavior = "Concurrent"
          /\ Did(fired', "error") /\ ~Did(fired', "unregister"))
         => /\ fired'.invoked = callbacks
            /\ fired'.out = "returned"]_vars

\* A Concurrent fire() whose first callback raised and whose other two were
\* invoked.
C24_Witness ==
    /\ behavior = "Concurrent"
    /\ fired.op = "fire" /\ fired.out = "returned"
    /\ Len(fired.invoked) = 3
    /\ fired.did[1].do = "error" /\ fired.did[2].do = "return"

\* C25: a Concurrent fire() always returns to its caller, and (no callback
\* unregistering) has by then spawned one unit for every callback of the
\* list, also for those after a callback that suspended for good.
C25_ConcurrentFireReturns ==
    [][(fired'.op = "fire" /\ behavior = "Concurrent")
         => /\ fired'.out = "returned"
            /\ ~Did(fired', "unregister") => Len(fired'.invoked) = Len(callbacks)]_vars

\* A Concurrent fire() that returned although its first two callbacks
\* suspended for good.
C25_Witness ==
    /\ behavior = "Concurrent"
    /\ fired.op = "fire" /\ fired.out = "returned"
    /\ Len(fired.invoked) = 3
    /\ fired.did[1].do = "hang" /\ fired.did[2].do = "hang"

\* The calls one pass over the observer list makes for cb.
Notifications(kind, observers, cb) ==
    [i \in 1..Len(observers) |-> <<kind, observers[i], cb>>]

C28_UnregisterAllNotifiesEveryEntry ==
    [][fired'.op = "unregisterAll"
         => /\ callbacks' = << >>
            /\ \A o \in Observers, cb \in Callbacks :
                  Count(fired'.notified, <<"unregistered", o, cb>>)
                      = Count(onUnregisteredCallbacks, o) * Count(callbacks, cb)]_vars

\* C29: a closure returned by onRegistered() or onUnregistered(), called for
\* the first time, takes one subscription of its observer out of its list
\* and leaves every other subscription; called again it changes nothing.
C29_ClosureRemovesOwnSubscription ==
    [][fired'.op \in {"stopOnRegistered", "stopOnUnregistered"}
         => LET c == closures[fired'.arg]
                before == IF c.list = "onRegistered" THEN onRegisteredCallbacks
                          ELSE onUnregisteredCallbacks
                after == IF c.list = "onRegistered" THEN onRegisteredCallbacks'
                         ELSE onUnregisteredCallbacks'
            IN /\ \A o \in Observers :
                     Count(after, o) =
                         IF o = c.obs /\ ~c.called THEN Count(before, o) - 1
                         ELSE Count(before, o)
               /\ c.list = "onRegistered"
                     => onUnregisteredCallbacks' = onUnregisteredCallbacks
               /\ c.list = "onUnregistered"
                     => onRegisteredCallbacks' = onRegisteredCallbacks]_vars

\* ======================================================================
\* Part 3: the decorator OnLifecycle (lifecycle.ts:133-143)
\* ======================================================================
\* The value the decorator gets as `target` for a method of the class c: the
\* class itself, which is no instance.
Target(c) == [kind |-> "class", cls |-> c, inst |-> None]

\* The singleton the registry holds for the class c.
Singleton(c) == [kind |-> "instance", cls |-> c, inst |-> GetProvider(providerClasses, c)]

\* Lines 139-141: the closure the decorator registers; it holds the method
\* (descriptor.value) of the class c and the target.
Bound(c) == [method |-> c, target |-> Target(c)]

\* Line 140, descriptor.value(target, ...args): the method runs with the
\* closure's target as its `this`, and returns.
BoundCall(cl) == [do |-> "method", arg |-> cl.target]

\* The decorator is applied to a method of the class c (lines 138-142).
OnLifecycle(c) ==
    /\ \E s \in {RegisterCall(Run(callbacks, registered), Bound(c),
                              [o \in Observers |-> Return])} :
          /\ Fits(s.callbacks)
          /\ callbacks' = s.callbacks
          /\ registered' = s.registered
          /\ fired' = Fired("OnLifecycle", c, s)
    /\ UNCHANGED <<behavior, onRegisteredCallbacks, onUnregisteredCallbacks, closures>>
    /\ UNCHANGED <<protonVars, restVars>>

\* fire() on a Lifecycle that holds closures of the decorator.
FireBound ==
    /\ \E s \in {IF behavior = "Series"
                 THEN FireSeries(Run(callbacks, registered),
                                 [cl \in Range(callbacks) |-> BoundCall(cl)],
                                 [o \in Observers |-> Return], 1)
                 ELSE FireConcurrent(Run(callbacks, registered),
                                     [cl \in Range(callbacks) |-> BoundCall(cl)],
                                     [o \in Observers |-> Return], 1)} :
          fired' = Fired("fire", "none", s)
    /\ UNCHANGED <<behavior, callbacks, registered, onRegisteredCallbacks,
                   onUnregisteredCallbacks, closures>>
    /\ UNCHANGED <<protonVars, restVars>>

\* Providers are declared, their methods are bound to a Lifecycle, and the
\* Lifecycle is fired.
BindingNext ==
    \/ \E t \in Threads, c \in Classes : Provider(t, c)
    \/ \E t \in Threads : CtorResume(t)
    \/ \E c \in Classes : OnLifecycle(c)
    \/ FireBound

BindingSpec == LifecycleInit /\ [][BindingNext]_vars

\* C30: on every fire() a bound method of a registered provider class runs
\* with the singleton the registry holds for that class at the time of the
\* fire().
C30_BoundMethodGetsSingleton ==
    [][fired'.op = "fire"
         => \A i \in 1..Len(fired'.invoked) :
               fired'.invoked[i].method \in DOMAIN providerClasses
                   => fired'.did[i].arg = Singleton(fired'.invoked[i].method)]_vars

\* C33 as stated: a start() call made in NotStarted with an init-capable
\* provider in the registry suspends its caller at the barrier, and no
\* protonStart unit is spawned in that run, whatever the init units do.
C33_StartSuspendsWhenInitExists ==
    [][\A t \in Threads :
         (/\ event'.op = "start" /\ event'.t = t
          /\ ~starting /\ ~started
          /\ \E c \in DOMAIN providerClasses : HasInit(c))
           => /\ event'.out = "pending"
              /\ pc'[t] = "barrier"
              /\ ~started' /\ startCount' = startCount]_vars

\* C33, amended: such a call suspends its caller at the barrier, before any
\* protonStart unit is spawned, when an init unit has not returned by the
\* end of the loop that spawns them (it yielded, raised or hangs); when
\* every init unit returned without yielding the call goes through to
\* Started without suspending.
C33_StartSuspendsUnlessInitDone ==
    [][\A t \in Threads :
         (/\ event'.op = "start" /\ event'.t = t
          /\ ~starting /\ ~started
          /\ \E c \in DOMAIN providerClasses : HasInit(c))
           => IF \E c \in DOMAIN providerClasses : HasInit(c) /\ initUnit'[c] # "returned"
              THEN /\ event'.out = "pending"
                   /\ pc'[t] = "barrier"
                   /\ ~started' /\ startCount' = startCount
              ELSE /\ event'.out = "returned"
                   /\ pc'[t] = "idle"
                   /\ started']_vars

\* start() has just suspended at the barrier with one init unit that
\* returned without yielding and another one that yielded.
C33_Witness ==
    /\ event.op = "start" /\ event.out = "pending"
    /\ pc[event.t] = "barrier"
    /\ \E c \in Classes : initUnit[c] = "returned"
    /\ \E c \in Classes : initUnit[c] = "yielded"

\* C34: every protonStart unit began while started was still false; and the
\* run of start() that sets started has by then spawned the unit of every
\* start-capable provider, and resumes the waiters after both: none of
\* them, a protonStart unit that called awaitStart() included, is left
\* suspended, whether or not it calls awaitStart() again when resumed.
C34_SpawnThenStartedThenResume ==
    /\ [](\A c \in Classes : startCount[c] > 0 => startSaw[c] = "NotStarted")
    /\ [][(~started /\ started')
            => /\ \A c \in DOMAIN providerClasses : HasStart(c) => startSaw'[c] = "NotStarted"
               /\ \A c \in Classes : startUnit'[c] # "parked"
               /\ \A t \in Threads : pc'[t] # "await"]_vars

\* start() returned without suspending; a protonStart unit that called
\* awaitStart() was parked and resumed in that run.
C34_Witness ==
    /\ started /\ event.op = "start" /\ event.out = "returned"
    /\ \E c \in Classes : startUnit[c] = "resumed" /\ startSaw[c] = "NotStarted"

C36_InitAwaitStartDeadlocks ==
    /\ [](\A c \in Classes :
            initUnit[c] = "parked"
              => /\ starting /\ ~started
                 /\ InitUnitThread(c) \in Waiters
                 /\ completedInit < numInitProviders
                 /\ thread # None /\ pc[thread] = "barrier"
                 /\ \A d \in Classes : startCount[d] = 0)
    /\ [][\A c \in Classes : initUnit[c] = "parked" => initUnit'[c] = "parked"]_vars

\* One protonInit is suspended in awaitStart(); the other provider's
\* protonInit yielded and has since returned, and start() is still parked.
C36_Witness ==
    /\ \E c \in Classes : initUnit[c] = "parked" /\ InitUnitThread(c) \in Waiters
    /\ \E c \in Classes : initUnit[c] = "returned"
    /\ event.op = "protonInit" /\ event.out = "returned"
    /\ completedInit = 1 /\ numInitProviders = 2

\* ===================================================================== Part 4
\* Proton.onStart (src/unnamed/part_000:81-124, part_001:34-76): the version
\* of the orchestrator without an init phase, in which start() sets started
\* before it spawns anything.

\* Calls of onStart() made: by the application and by callbacks together.
MaxPassed == 3

\* part_000 clears awaitCallbacks at the end of start() (line 90); part_001
\* does not.
Versions == {"part_000", "part_001"}

\* What a callback may do when it is spawned: return, raise an error, suspend
\* for good, call Proton.start(), or pass a callback to Proton.onStart().
OnStartBehaviors ==
    [do : {"return", "error", "hang", "start"}, arg : {"none"}]
        \cup [do : {"onStart"}, arg : OnStartCallbacks]

\* The calls of onStart() made so far.
Passed(p) == p["f"] + p["g"]

StartedGuardNever(st) == FALSE

\* part_000:82, part_001:35: if (started) return.
StartedGuard(st) == st

\* part_000:119, part_001:71: if (started).
OnStartGuard(st) == st

\* part_000:118-124: onStart(cb) with started = st.  The callback spawned at
\* line 120 runs at once; here it is one that returns.
\* acc: the callback queue and the two counts.
OnStartCall(acc, cb, st) ==
    IF OnStartGuard(st)
    THEN [acc EXCEPT !.passed[cb] = @ + 1, !.invoked[cb] = @ + 1]
    ELSE [acc EXCEPT !.passed[cb] = @ + 1, !.queue = Append(@, cb)]

\* part_000:84-86 entered again from inside a callback: every entry of the
\* queue is spawned; the callbacks spawned there return.
RECURSIVE SpawnAgain(_, _)
SpawnAgain(i, acc) ==
    IF i > Len(acc.queue) THEN acc
    ELSE SpawnAgain(i + 1, [acc EXCEPT !.invoked[acc.queue[i]] = @ + 1])

\* task.spawn(callback), part_000:85 and 120: the callback cb runs at once,
\* up to its first yield, and does b, reading `started` as it is then (st).
SpawnCallback(acc, cb, b, st) ==
    LET a == [acc EXCEPT !.invoked[cb] = @ + 1]
    IN CASE b.do = "onStart" ->
              IF Passed(a.passed) < MaxPassed THEN OnStartCall(a, b.arg, st) ELSE a
         [] b.do = "start" -> IF StartedGuard(st) THEN a ELSE SpawnAgain(1, a)
         [] OTHER -> a

\* part_000:84-86: the loop over awaitCallbacks, by index; beh[i] is what the
\* i-th callback spawned does.
RECURSIVE CallbackLoop(_, _, _, _)
CallbackLoop(i, beh, acc, st) ==
    IF i > Len(acc.queue) THEN acc
    ELSE CHOOSE r \in {CallbackLoop(i + 1, beh, a, st) :
                        a \in {SpawnCallback(acc, acc.queue[i],
                                             IF i \in DOMAIN beh THEN beh[i]
                                             ELSE [do |-> "return", arg |-> "none"], st)}} : TRUE

\* part_000:90 awaitCallbacks.clear(); part_001 has no such line.
QueueAfterStart(q, v) == IF v = "part_000" THEN << >> ELSE q

\* Proton.start() of version v called by thread t (part_000:81-92,
\* part_001:34-44): the flag first, then the callbacks, then the waiters.
StartV(t, v) ==
    /\ CanCall(t)
    /\ IF StartedGuard(started)
       THEN /\ Call(t, "start", "none", "noop", None)
            /\ UNCHANGED <<started, awaitStartThreads, pc, onStartVars>>
       ELSE \E beh \in [1..Len(awaitCallbacks) -> OnStartBehaviors] :
              \E c \in {CallbackLoop(1, beh,
                                     [queue |-> awaitCallbacks, passed |-> passed,
                                      invoked |-> invoked], TRUE)} :
              \E w \in {ResumeLoop(1, {},
                                   [pc |-> pc, unit |-> startUnit, queue |-> awaitStartThreads,
                                    init |-> initUnit, completed |-> completedInit], TRUE)} :
                 /\ started' = TRUE
                 /\ passed' = c.passed
                 /\ invoked' = c.invoked
                 /\ awaitCallbacks' = QueueAfterStart(c.queue, v)
                 /\ pc' = w.pc
                 /\ awaitStartThreads' = << >>
                 /\ Call(t, "start", "none", "returned", None)
    /\ UNCHANGED <<providerClasses, starting, thread, numInitProviders, completedInit,
                   nextInst, ctorArg, initUnit, initCount, startCount, startUnit,
                   startSaw, decorated>>
    /\ UNCHANGED <<lifecycleVars, coreVars, attributesVars, componentVars>>

\* Proton.onStart(cb) called by thread t (part_000:118-124); b is what cb
\* does if it is spawned at once.
OnStart(t, cb, b) ==
    /\ CanCall(t)
    /\ Passed(passed) < MaxPassed
    /\ \E a \in {[queue |-> awaitCallbacks,
                  passed |-> [passed EXCEPT ![cb] = @ + 1], invoked |-> invoked]} :
       \E r \in {IF OnStartGuard(started)
                 THEN SpawnCallback(a, cb, b, started)
                 ELSE [a EXCEPT !.queue = Append(@, cb)]} :
          /\ awaitCallbacks' = r.queue
          /\ passed' = r.passed
          /\ invoked' = r.invoked
    /\ Call(t, "onStart", cb, IF OnStartGuard(started) THEN "spawned" ELSE "queued", None)
    /\ UNCHANGED <<providerClasses, starting, started, awaitStartThreads, thread,
                   numInitProviders, completedInit, nextInst, pc, ctorArg, initUnit,
                   initCount, startCount, startUnit, startSaw, decorated>>
    /\ UNCHANGED <<lifecycleVars, coreVars, attributesVars, componentVars>>

OnStartNext ==
    \/ \E t \in Threads, v \in Versions : StartV(t, v)
    \/ \E t \in Threads, cb \in OnStartCallbacks, b \in OnStartBehaviors : OnStart(t, cb, b)
    \/ \E t \in Threads : AwaitStart(t)

OnStartSpec == Init /\ [][OnStartNext]_vars

\* C31: every callback passed to onStart() is invoked exactly once per call
\* that passed it, and never while started is false: until start() runs the
\* callbacks passed are queued and none has been invoked; the step that sets
\* started spawns every queued callback; onStart() called once started is set
\* spawns its callback in that call; a later start() call invokes nothing.
C31_OnStartCallbackOnce ==
    /\ [](\A cb \in OnStartCallbacks :
            /\ invoked[cb] = IF started THEN passed[cb] ELSE 0
            /\ ~started => Count(awaitCallbacks, cb) = passed[cb])
    /\ [][(~started /\ started')
            => \A cb \in OnStartCallbacks :
                 invoked'[cb] >= Count(awaitCallbacks, cb) /\ invoked'[cb] = passed'[cb]]_vars
    /\ [][(event'.op = "onStart" /\ started)
            => /\ event'.out = "spawned"
               /\ invoked'[event'.cls] > invoked[event'.cls]
               /\ awaitCallbacks' = awaitCallbacks]_vars
    /\ [][(event'.op = "start" /\ started)
            => event'.out = "noop" /\ invoked' = invoked /\ passed' = passed]_vars

\* Started by the version that keeps its queue: a callback was queued before
\* start(), one was passed afterwards, and start() was then called again.
C31_Witness ==
    /\ started /\ awaitCallbacks # << >>
    /\ event.op = "start" /\ event.out = "noop"
    /\ Passed(passed) = MaxPassed
    /\ \E cb \in OnStartCallbacks : Count(awaitCallbacks, cb) < invoked[cb]

\* ===================================================================== Part 5
\* The lifecycle-based Proton.start() (src/src/core.ts:37-45) with the
\* ProtonStart lifecycle (core.ts:8), a Concurrent ProtonLifecycle
\* (src/unnamed/part_005:30-63).

\* What a ProtonStart callback may do when fire() spawns it: return, raise an
\* error, suspend for good, or call Proton.start() the first time it runs.
CoreBehaviors == {"return", "error", "hang", "start"}

\* core.ts:38: if (started) return.
CoreStartGuard(st) == st

\* core.ts:37-45 and part_005:56-63.  CoreStartBody is start() entered with
\* the state acc (started, fireCount, the threads' positions, the waiter
\* queue); CoreFireLoop is fireConcurrent's loop, where task.spawn runs the
\* i-th callback at once: one that calls Proton.start() enters CoreStartBody
\* with the state as it is then.  Callbacks spawned by that inner fire()
\* return.
RECURSIVE CoreStartBody(_, _, _), CoreFireLoop(_, _, _, _)
CoreStartBody(acc, beh, inner) ==
    IF CoreStartGuard(acc.started) THEN acc
    ELSE LET f == CoreFireLoop(1, beh, [acc EXCEPT !.fireCount = @ + 1], inner)
             w == ResumeLoop(1, {},
                             [pc |-> f.pc, unit |-> startUnit, queue |-> f.queue,
                              init |-> initUnit, completed |-> completedInit], TRUE)
         IN [started |-> TRUE, fireCount |-> f.fireCount, pc |-> w.pc, queue |-> << >>]

CoreFireLoop(i, beh, acc, inner) ==
    IF i > Len(beh) THEN acc
    ELSE CHOOSE r \in {CoreFireLoop(i + 1, beh, a, inner) :
                        a \in {IF beh[i] = "start" /\ ~inner
                               THEN CoreStartBody(acc, beh, TRUE)
                               ELSE acc}} : TRUE

\* ProtonStart.register(cb, memoryCategory), part_005:87-92, with nobody
\* subscribed to onRegistered.
CoreRegister(cb) ==
    /\ Len(callbacks) < MaxLen
    /\ callbacks' = Append(callbacks, cb)
    /\ registered' = Append(registered, cb)
    /\ event' = Event(None, "register", cb, "returned", None)
    /\ UNCHANGED <<behavior, onRegisteredCallbacks, onUnregisteredCallbacks, closures, fired>>
    /\ UNCHANGED <<providerClasses, starting, started, awaitStartThreads, thread,
                   numInitProviders, completedInit, nextInst, pc, ctorArg, initUnit,
                   initCount, startCount, startUnit, startSaw, decorated>>
    /\ UNCHANGED restVars

\* Proton.start() called by thread t, core.ts:37-45; beh[i] is what the i-th
\* ProtonStart callback does.
CoreStart(t) ==
    /\ CanCall(t)
    /\ \E beh \in [1..Len(callbacks) -> CoreBehaviors] :
       \E r \in {CoreStartBody([started |-> started, fireCount |-> fireCount, pc |-> pc,
                                queue |-> awaitStartThreads], beh, FALSE)} :
          /\ started' = r.started
          /\ fireCount' = r.fireCount
          /\ pc' = r.pc
          /\ awaitStartThreads' = r.queue
    /\ Call(t, "start", "none", IF CoreStartGuard(started) THEN "noop" ELSE "returned", None)
    /\ UNCHANGED <<providerClasses, starting, thread, numInitProviders, completedInit,
                   nextInst, ctorArg, initUnit, initCount, startCount, startUnit,
                   startSaw, decorated>>
    /\ UNCHANGED <<lifecycleVars, onStartVars, attributesVars, componentVars>>

CoreNext ==
    \/ \E cb \in Callbacks : CoreRegister(cb)
    \/ \E t \in Threads : CoreStart(t)
    \/ \E t \in Threads : AwaitStart(t)

CoreSpec == Init /\ [][CoreNext]_vars

\* C37: ProtonStart.fire() is called at most once, and exactly once by the
\* time started is set, a ProtonStart callback that calls Proton.start() from
\* inside fire() included.
C37_ProtonStartFiredOnce ==
    fireCount <= 1 /\ (started => fireCount = 1)

\* ===================================================================== Part 6
\* The Attributes wrapper (src/src/attributes.ts), for one attribute key.

\* Handlers subscribed with onChanged() at one time.
MaxHandlers == 2

\* Runs of the changed-signal connection that are due at one time.
MaxDeferred == 2

\* The values the attribute takes.
AttrValues == {0, 1, 2}

\* The functions the application passes to onChanged().
Handlers == {"h1", "h2"}

\* Workspace.SignalBehavior: a connection runs inside the call that fires the
\* signal, or later, from the engine's queue.
SignalBehaviors == {"Immediate", "Deferred"}

\* What a handler may do when it is spawned: return, call set() with a value,
\* or call the cleanup function onChanged() returned for a handler.
HandlerBehaviors ==
    {[do |-> "return", arg |-> 0, h |-> "none"]}
        \cup [do : {"set"}, arg : AttrValues, h : {"none"}]
        \cup [do : {"cleanup"}, arg : {0}, h : Handlers]

HandlerReturns == [do |-> "return", arg |-> 0, h |-> "none"]

\* Every handler returns, or one handler acts.
HandlerInputs ==
    {[x \in Handlers |-> HandlerReturns]}
        \cup UNION {{[x \in Handlers |-> IF x = y THEN b ELSE HandlerReturns] :
                       b \in HandlerBehaviors} : y \in Handlers}

\* attributes.ts:107-111: the cleanup function of handler h.
CleanupCall(cbs, h) ==
    IF IndexOf(cbs, h) = 0 THEN cbs ELSE UnorderedRemove(cbs, IndexOf(cbs, h))

\* attributes.ts:54: newValue === oldValue.
Unchanged(newValue, oldValue) == newValue = oldValue

\* attributes.ts:52-66, 78-82 and 44-46.  acc: the cache, the instance's
\* value, the handler list, the due signal runs, the handlers spawned, and
\* what handleOnChange returned last.  beh[h]: what handler h does when it is
\* spawned by a call the application or the engine made (depth 0); spawned
\* inside a call made by a handler, a handler returns.
\*   HandleOnChange: lines 52-66, `by` the caller (set or the connection);
\*   SpawnLoop: lines 58-63, by index over the list as it is then;
\*   SetCall: lines 78-82;
\*   SetAttribute: instance.SetAttribute of line 81, which fires the changed
\*     signal when the value differs, and with it the connection of line 44.
RECURSIVE HandleOnChange(_, _, _, _, _)
RECURSIVE SpawnLoop(_, _, _, _, _, _, _)
RECURSIVE SetCall(_, _, _, _)
RECURSIVE SetAttribute(_, _, _, _)
HandleOnChange(acc, newValue, beh, by, depth) ==
    IF Unchanged(newValue, acc.attr)
    THEN [acc EXCEPT !.changed = FALSE]
    ELSE [SpawnLoop(1, [acc EXCEPT !.attr = newValue], newValue, acc.attr, beh, by, depth)
            EXCEPT !.changed = TRUE]

SpawnLoop(i, acc, newValue, oldValue, beh, by, depth) ==
    IF i > Len(acc.callbacks) THEN acc
    ELSE LET h == acc.callbacks[i]
             b == IF depth = 0 THEN beh[h] ELSE HandlerReturns
         IN CHOOSE r \in {SpawnLoop(i + 1, a2, newValue, oldValue, beh, by, depth) :
               a2 \in UNION {{CASE b.do = "set" -> SetCall(a1, b.arg, beh, depth + 1)
                                [] b.do = "cleanup" ->
                                     [a1 EXCEPT !.callbacks = CleanupCall(@, b.h)]
                                [] OTHER -> a1} :
                  a1 \in {[acc EXCEPT !.log = Append(@, [h |-> h, new |-> newValue,
                                                        old |-> oldValue, by |-> by])]}}} : TRUE

SetCall(acc, value, beh, depth) ==
    CHOOSE r \in {IF a.changed THEN SetAttribute(a, value, beh, depth) ELSE a :
                    a \in {HandleOnChange(acc, value, beh, "set", depth)}} : TRUE

SetAttribute(acc, value, beh, depth) ==
    IF acc.inst = value THEN acc
    ELSE IF signalBehavior = "Immediate"
         THEN HandleOnChange([acc EXCEPT !.inst = value], value, beh, "signal", depth + 1)
         ELSE [acc EXCEPT !.inst = value, !.deferred = Append(@, "set")]

Acc ==
    [attr |-> attr, inst |-> instAttr, callbacks |-> onChangedCallbacks,
     deferred |-> deferred, log |-> << >>, changed |-> FALSE]

\* The step's effect r on the Attributes object.
Becomes(r) ==
    /\ Len(r.deferred) <= MaxDeferred
    /\ attr' = r.attr
    /\ instAttr' = r.inst
    /\ onChangedCallbacks' = r.callbacks
    /\ deferred' = r.deferred
    /\ attrLog' = r.log

\* attrs.set(key, value), lines 78-82.
Set(value, beh) ==
    /\ \E r \in {SetCall(Acc, value, beh, 0)} : Becomes(r)
    /\ attrEvent' = [op |-> "set", value |-> value]
    /\ UNCHANGED signalBehavior
    /\ UNCHANGED <<protonVars, lifecycleVars, onStartVars, coreVars, componentVars>>

\* attrs.onChanged(key, handler), lines 97-112.
OnChanged(h) ==
    /\ Len(onChangedCallbacks) < MaxHandlers
    /\ onChangedCallbacks' = Append(onChangedCallbacks, h)
    /\ attrLog' = << >>
    /\ attrEvent' = [op |-> "onChanged", value |-> 0]
    /\ UNCHANGED <<signalBehavior, attr, instAttr, deferred>>
    /\ UNCHANGED <<protonVars, lifecycleVars, onStartVars, coreVars, componentVars>>

\* The cleanup function of handler h, called by the application.
HandlerCleanup(h) ==
    /\ onChangedCallbacks' = CleanupCall(onChangedCallbacks, h)
    /\ attrLog' = << >>
    /\ attrEvent' = [op |-> "cleanup", value |-> 0]
    /\ UNCHANGED <<signalBehavior, attr, instAttr, deferred>>
    /\ UNCHANGED <<protonVars, lifecycleVars, onStartVars, coreVars, componentVars>>

\* The engine runs a due connection: lines 44-46 with the value the instance
\* holds by then.
SignalRun(beh) ==
    /\ deferred # << >>
    /\ \E r \in {HandleOnChange([Acc EXCEPT !.deferred = Tail(@)], instAttr, beh, "signal", 0)} :
         Becomes(r)
    /\ attrEvent' = [op |-> "signal", value |-> 0]
    /\ UNCHANGED signalBehavior
    /\ UNCHANGED <<protonVars, lifecycleVars, onStartVars, coreVars, componentVars>>

AttributesNext ==
    \/ \E value \in AttrValues, beh \in HandlerInputs : Set(value, beh)
    \/ \E h \in Handlers : OnChanged(h)
    \/ \E h \in Handlers : HandlerCleanup(h)
    \/ \E beh \in HandlerInputs : SignalRun(beh)

AttributesInit ==
    /\ OrchestratorInit
    /\ LifecycleNew("Concurrent")
    /\ \E mode \in SignalBehaviors : AttributesNew(mode)
    /\ ComponentRunnerNew(TRUE, TRUE)

AttributesSpec == AttributesInit /\ [][AttributesNext]_vars

\* The entries of the log that spawn handler h.
Spawned(log, h) == {i \in 1..Len(log) : log[i].h = h}

\* C40: a set(value) with a value other than the cached one spawns every
\* handler in the list once per entry, with (value, cached value), all of them
\* by set itself, and leaves the cache and the instance both holding value; a
\* set(value) with the cached value writes nothing and spawns nobody; and a
\* run of the changed-signal connection spawns nobody.
C40_SetNotifiesOnce ==
    /\ [][attrEvent'.op = "set"
            => IF attrEvent'.value = attr
               THEN instAttr' = instAttr /\ attr' = attr /\ attrLog' = << >>
               ELSE /\ \A h \in Handlers :
                         Cardinality(Spawned(attrLog', h)) = Count(onChangedCallbacks, h)
                    /\ \A i \in 1..Len(attrLog') :
                         /\ attrLog'[i].new = attrEvent'.value
                         /\ attrLog'[i].old = attr
                         /\ attrLog'[i].by = "set"
                    /\ attr' = attrEvent'.value
                    /\ instAttr' = attrEvent'.value]_vars
    /\ [][attrEvent'.op = "signal" => attrLog' = << >> /\ attr' = attr]_vars

\* ===================================================================== Part 7
\* The component runtime (src/unnamed/part_004): one ComponentRunner, with a
\* tag (instances come and go by CollectionService signals) or without one
\* (addComponent / removeComponent), and with or without a descendant
\* whitelist.

\* Component objects constructed.
MaxComps == 2

\* Where an instance is: under a whitelisted ancestor, elsewhere in the tree,
\* or without parent.
Positions == {"in", "out", "nil"}

\* Map.delete(k)
MapDelete(m, k) == [x \in (DOMAIN m) \ {k} |-> m[x]]

\* part_004:89-106, with a whitelist or with no filter at all.
CheckParent(pos) == IF configFilter THEN pos = "in" ELSE TRUE

NeedsStartAlways(started_) == TRUE

\* part_004:123: if (!compItem.started).
NeedsStart(started_) == ~started_

\* The runner's maps and the component objects, as a value.
Runner == [queue |-> addQueue, insts |-> compInstances, comps |-> comps, log |-> << >>]

\* task.spawn(() => comp.onStart()) / comp.onStop() for component object c:
\* the call runs at once and finds the runner's maps as they are then.
\* (last: the latest call made on c; stopped: onStop was called on c.)
Called(r, c, call) ==
    [r EXCEPT !.comps[c].last = call,
              !.comps[c].stopped = @ \/ call = "onStop",
              !.log = Append(@, [comp |-> c, call |-> call,
                                 inQueue |-> r.comps[c].inst \in r.queue,
                                 inComps |-> r.comps[c].inst \in DOMAIN r.insts])]

\* part_004:108-140.
OnInstanceAdded(r, i) ==
    LET c == Len(r.comps) + 1
        r1 == [r EXCEPT !.comps = Append(@, [inst |-> i, started |-> FALSE,
                                             connected |-> FALSE, last |-> "none",
                                             stopped |-> FALSE]),
                        !.insts = MapSet(@, i, c)]
        r2 == IF CheckParent(position[i])
              THEN Called([r1 EXCEPT !.comps[c].started = TRUE], c, "onStart")
              ELSE r1
        r3 == [r2 EXCEPT !.comps[c].connected = configFilter]
    IN [r3 EXCEPT !.queue = @ \ {i}]

\* part_004:150-166.
OnInstanceRemoved(r, i) ==
    LET r1 == [r EXCEPT !.queue = @ \ {i}]
    IN IF i \notin DOMAIN r1.insts THEN r1
       ELSE LET c == r1.insts[i]
                r2 == [r1 EXCEPT !.insts = MapDelete(@, i)]
                r3 == IF r2.comps[c].started THEN Called(r2, c, "onStop") ELSE r2
            IN [r3 EXCEPT !.comps[c].connected = FALSE]

\* part_004:120-135: the AncestryChanged connection of component object c,
\* run with the instance now at pos.
AncestryHandler(r, c, pos) ==
    IF pos = "nil" THEN r
    ELSE IF CheckParent(pos)
         THEN IF NeedsStart(r.comps[c].started)
              THEN Called([r EXCEPT !.comps[c].started = TRUE], c, "onStart")
              ELSE r
         ELSE IF r.comps[c].started
              THEN Called([r EXCEPT !.comps[c].started = FALSE], c, "onStop")
              ELSE r

\* The engine fires AncestryChanged of instance i: every connection made on
\* it and not disconnected runs, in the order they were made.
RECURSIVE AncestryLoop(_, _, _, _)
AncestryLoop(c, r, i, pos) ==
    IF c > Len(r.comps) THEN r
    ELSE CHOOSE x \in {AncestryLoop(c + 1, a, i, pos) :
                        a \in {IF r.comps[c].inst = i /\ r.comps[c].connected
                               THEN AncestryHandler(r, c, pos)
                               ELSE r}} : TRUE

\* part_004:168-174.
GetFromInstance(r, i) ==
    IF i \in DOMAIN r.insts /\ r.comps[r.insts[i]].started THEN r.insts[i] ELSE None

\* The step's effect r on the runner.
RunnerBecomes(r) ==
    /\ addQueue' = r.queue
    /\ compInstances' = r.insts
    /\ comps' = r.comps
    /\ compLog' = r.log

CompEvent(o, i, out) == [op |-> o, inst |-> i, out |-> out]

\* The InstanceAdded connection runs for instance i: part_004:77-79, 142-148.
TagAdded(i) ==
    /\ configTag /\ ~tagged[i]
    /\ tagged' = [tagged EXCEPT ![i] = TRUE]
    /\ IF i \in addQueue \/ i \in DOMAIN compInstances
       THEN RunnerBecomes(Runner)
       ELSE RunnerBecomes([Runner EXCEPT !.queue = @ \cup {i}])
    /\ compEvent' = CompEvent("tagAdded", i, "returned")
    /\ UNCHANGED <<configTag, configFilter, position>>
    /\ UNCHANGED <<protonVars, lifecycleVars, onStartVars, coreVars, attributesVars>>

\* The scheduler runs the thread task.defer made at line 146.
DeferredAdd(i) ==
    /\ i \in addQueue
    /\ Len(comps) < MaxComps
    /\ RunnerBecomes(OnInstanceAdded(Runner, i))
    /\ compEvent' = CompEvent("deferredAdd", i, "returned")
    /\ UNCHANGED <<configTag, configFilter, position, tagged>>
    /\ UNCHANGED <<protonVars, lifecycleVars, onStartVars, coreVars, attributesVars>>

\* The InstanceRemoved connection runs for instance i: part_004:80-82.
TagRemoved(i) ==
    /\ configTag /\ tagged[i]
    /\ tagged' = [tagged EXCEPT ![i] = FALSE]
    /\ RunnerBecomes(OnInstanceRemoved(Runner, i))
    /\ compEvent' = CompEvent("tagRemoved", i, "returned")
    /\ UNCHANGED <<configTag, configFilter, position>>
    /\ UNCHANGED <<protonVars, lifecycleVars, onStartVars, coreVars, attributesVars>>

\* addComponent(componentClass, instance): part_004:354-363 and forceSpawn,
\* 184-189.
AddComponent(i) ==
    /\ IF configTag
       THEN /\ RunnerBecomes(Runner)
            /\ compEvent' = CompEvent("addComponent", i, "error")
       ELSE IF GetFromInstance(Runner, i) # None
            THEN /\ RunnerBecomes(Runner)
                 /\ compEvent' = CompEvent("addComponent", i, "found")
            ELSE /\ Len(comps) < MaxComps
                 /\ RunnerBecomes(OnInstanceAdded(Runner, i))
                 /\ compEvent' = CompEvent("addComponent", i, "constructed")
    /\ UNCHANGED <<configTag, configFilter, position, tagged>>
    /\ UNCHANGED <<protonVars, lifecycleVars, onStartVars, coreVars, attributesVars>>

\* removeComponent(componentClass, instance): part_004:370-379 and
\* forceDespawn, 191-196.
RemoveComponent(i) ==
    /\ IF configTag
       THEN /\ RunnerBecomes(Runner)
            /\ compEvent' = CompEvent("removeComponent", i, "error")
       ELSE /\ RunnerBecomes(OnInstanceRemoved(Runner, i))
            /\ compEvent' = CompEvent("removeComponent", i, "returned")
    /\ UNCHANGED <<configTag, configFilter, position, tagged>>
    /\ UNCHANGED <<protonVars, lifecycleVars, onStartVars, coreVars, attributesVars>>

\* Instance i is moved to pos, and the engine fires its AncestryChanged.
AncestryChanged(i, pos) ==
    /\ position' = [position EXCEPT ![i] = pos]
    /\ RunnerBecomes(AncestryLoop(1, Runner, i, pos))
    /\ compEvent' = CompEvent("ancestry", i, pos)
    /\ UNCHANGED <<configTag, configFilter, tagged>>
    /\ UNCHANGED <<protonVars, lifecycleVars, onStartVars, coreVars, attributesVars>>

ComponentsNext ==
    \/ \E i \in Instances : TagAdded(i)
    \/ \E i \in Instances : DeferredAdd(i)
    \/ \E i \in Instances : TagRemoved(i)
    \/ \E i \in Instances : AddComponent(i)
    \/ \E i \in Instances : RemoveComponent(i)
    \/ \E i \in Instances, pos \in Positions : AncestryChanged(i, pos)

ComponentsInit ==
    /\ OrchestratorInit
    /\ LifecycleNew("Concurrent")
    /\ AttributesNew("Immediate")
    /\ \E tag \in BOOLEAN, filter \in BOOLEAN : ComponentRunnerNew(tag, filter)

ComponentsSpec == ComponentsInit /\ [][ComponentsNext]_vars

\* The call made on component object c before the k-th call of the log:
\* an earlier one of the same step, or the last one of the steps before.
PrevCall(log, k, before) ==
    LET c == log[k].comp
        earlier == {j \in 1..(k - 1) : log[j].comp = c}
    IN IF earlier # {}
       THEN log[CHOOSE j \in earlier : \A l \in earlier : l <= j].call
       ELSE IF c <= Len(before) THEN before[c].last ELSE "none"

\* C32: onStart is never called on a component object whose latest call was
\* onStart: between two onStart calls on it there is an onStop call, whatever
\* the tag, ancestry, addComponent and removeComponent events are.
C32_StartStopAlternate ==
    [][\A k \in 1..Len(compLog') :
         compLog'[k].call = "onStart" => PrevCall(compLog', k, comps) # "onStart"]_vars

\* A component object that had been stopped is started again by an ancestry
\* change.
C32_Witness ==
    /\ compEvent.op = "ancestry" /\ compEvent.out = "in"
    /\ \E k \in 1..Len(compLog) :
         compLog[k].call = "onStart" /\ comps[compLog[k].comp].stopped

\* The component objects of instance i that are started or can still be
\* started: running, or with a live ancestry connection, or the entry of
\* compInstances.
Live(i) ==
    {c \in 1..Len(comps) :
       /\ comps[c].inst = i
       /\ \/ comps[c].last = "onStart"
          \/ comps[c].connected
          \/ (i \in DOMAIN compInstances /\ compInstances[i] = c)}

\* C38: an instance has at most one component object that is started or can
\* still be started, and onStart is only ever called on the component object
\* compInstances holds for the instance.
C38_OneLiveComponent ==
    /\ [](\A i \in Instances : Cardinality(Live(i)) <= 1)
    /\ [][\A k \in 1..Len(compLog') :
            compLog'[k].call = "onStart"
              => LET i == comps'[compLog'[k].comp].inst
                 IN i \in DOMAIN compInstances' /\ compInstances'[i] = compLog'[k].comp]_vars

\* C39: the InstanceRemoved handler, run for an instance whose deferred add is
\* due, cancels the add: the instance leaves addQueue, no component object is
\* constructed and no onStart or onStop is called; and an instance is never in
\* addQueue and in compInstances at once, neither between steps nor when a
\* component's onStart or onStop runs.
C39_RemovalCancelsDeferredAdd ==
    /\ [][\A i \in Instances :
            (compEvent'.op = "tagRemoved" /\ compEvent'.inst = i /\ i \in addQueue)
              => /\ i \notin addQueue' /\ i \notin DOMAIN compInstances'
                 /\ comps' = comps /\ compLog' = << >>]_vars
    /\ [](\A i \in Instances : ~(i \in addQueue /\ i \in DOMAIN compInstances))
    /\ [](\A k \in 1..Len(compLog) : ~(compLog[k].inQueue /\ compLog[k].inComps))

====
